---- MODULE Spec2Model ----
(***************************************************************************)
(* The nex_cc channel adaptor.  Request conversion: system-prompt          *)
(* injection, cache-control repair and placement, and the Dialect-O to     *)
(* Dialect-A message-mode conversion (max tokens, thinking budget, stop    *)
(* sequences, messages).  Response path: the stream reducer and the        *)
(* handler of complete responses.  The TosLogger middleware.               *)
(*                                                                         *)
(* Go values of type `any` are modelled as tagged records, the tag naming  *)
(* the dynamic type the code switches on.  An optional value (a nil        *)
(* pointer, an absent map key, an empty json.RawMessage) is the empty      *)
(* sequence, a present one a one-element sequence.                         *)
(***************************************************************************)
EXTENDS Integers, Sequences, FiniteSets, TLC

VARIABLES
    request,        \* the dto.ClaudeRequest being built or rewritten
    inbound,        \* the dto.ClaudeRequest as the caller handed it in
    before,         \* request as it was before the latest call
    calls,          \* number of calls made so far
    textRequest,    \* the dto.GeneralOpenAIRequest given to ConvertOpenAIRequest
    settings,       \* model_setting.GetClaudeSettings(): read-only configuration
    outcome,        \* how the latest call ended: "none", "ok", "error", "panic"
    formatMessages, \* the flattened messages of the latest message conversion
    info,           \* the relaycommon.RelayInfo of the response path
    frames,         \* the frames the upstream stream delivers, in order
    cursor,         \* number of frames handled so far
    body,           \* the complete upstream response of the non-stream path
    sent,           \* what has been written to the caller, in order
    claudeInfo,     \* the ClaudeResponseInfo accumulator
    pc,             \* "idle", "scanning", "responding", "done", "aborted", "panicked"
    result,         \* the error and usage the response handler returned
    tos,            \* the log sink's client handle and the request TosLogger sees
    script,         \* the calls the request handler makes on c.Writer, in order
    wrote,          \* number of those calls made so far
    writer,         \* the real gin.ResponseWriter: what the caller receives
    bodyWriter,     \* the responseBodyWriter of the request, absent when not logging
    mw,             \* TosLogger: "idle", "start", "handling", "submitted", "returned"
    task,           \* the upload task: its state ("none", "queued", "done",
                    \* "failed", "panicked") and the log record it was given
    logs            \* what the upload task has logged and uploaded, in order

conversionVars ==
    <<request, inbound, before, calls, textRequest, settings, outcome, formatMessages>>

responseVars == <<info, frames, cursor, body, sent, claudeInfo, pc, result>>

loggerVars == <<tos, script, wrote, writer, bodyWriter, mw, task, logs>>

vars == <<conversionVars, responseVars, loggerVars>>

(***************************************************************************)
(* Bounds of the model.                                                    *)
(***************************************************************************)
MaxSystemLen == 2
MaxMessages == 2
MaxTotalBlocks == 3
MaxCalls == 2
MaxStop == 2
MaxInMessages == 3
MaxFrames == 2
MaxDeltas == 2
MaxWrites == 3

None == <<>>
Some(x) == <<x>>

SeqsUpTo(S, n) == UNION {[1..k -> S] : k \in 0..n}

(***************************************************************************)
(* Cache-control markers.  rep is the Go representation:                   *)
(*   "any"    map[string]interface{} (decoded JSON),                       *)
(*   "string" map[string]string      (what the fix passes store in maps),  *)
(*   "json"   json.RawMessage        (dto.ClaudeMediaMessage.CacheControl).*)
(***************************************************************************)
Marker(rep, ttl) == [rep |-> rep, type |-> "ephemeral", ttl |-> ttl]

\* map[string]string{"type": "ephemeral", "ttl": "1h"}
fixedCacheControl == Marker("string", Some("1h"))

\* json.Marshal(map[string]string{"type": "ephemeral", "ttl": "1h"})
cacheControlData == Marker("json", Some("1h"))

(***************************************************************************)
(* Content blocks and system elements.  kind is the Go type of the         *)
(* element: "map" map[string]interface{}, "media" dto.ClaudeMediaMessage,  *)
(* "raw" any other element of a []interface{} (its value is kept in text). *)
(***************************************************************************)
Block(kind, type, text, cc) == [kind |-> kind, type |-> type, text |-> text, cc |-> cc]

defaultSystemMessage == "You are Claude Code, Anthropic's official CLI for Claude."

claudeCodeSystemPrompt == Block("map", "text", Some(defaultSystemMessage), None)

\* A value of a field of type `any` that holds a string or a list.
Value(shape, str, items) == [shape |-> shape, str |-> str, items |-> items]

MapList(items) == Value("maps", "", items)

IsList(v) == v.shape \in {"maps", "untyped", "media"}

(***************************************************************************)
(* processClaudeCodeSystemPrompt                                           *)
(***************************************************************************)
\* The map built from one dto.ClaudeMediaMessage of the system list:
\* type always, text when the pointer is set, cache_control when the raw
\* JSON is non-empty (json.Unmarshal into interface{} gives a decoded map).
MediaToMap(msg) ==
    Block("map", msg.type, msg.text,
          IF msg.cc # None THEN Some([msg.cc[1] EXCEPT !.rep = "any"]) ELSE None)

\* A variant that prepends the preamble whatever the first element is.
processAlwaysPrepend(System) ==
    IF IsList(System) /\ System.shape # "media"
    THEN MapList(<<claudeCodeSystemPrompt>> \o SelectSeq(System.items, LAMBDA e : e.kind = "map"))
    ELSE IF System.shape = "media"
         THEN MapList(<<claudeCodeSystemPrompt>> \o [i \in 1..Len(System.items) |-> MediaToMap(System.items[i])])
         ELSE MapList(<<claudeCodeSystemPrompt>>)

processClaudeCodeSystemPrompt(System) ==
    CASE System.shape = "nil" ->
            MapList(<<claudeCodeSystemPrompt>>)
      [] System.shape = "maps" ->
            IF Len(System.items) = 0
            THEN MapList(<<claudeCodeSystemPrompt>>)
            ELSE IF System.items[1].text # Some(defaultSystemMessage)
                 THEN MapList(<<claudeCodeSystemPrompt>> \o System.items)
                 ELSE System
      [] System.shape = "untyped" ->
            IF Len(System.items) = 0
            THEN MapList(<<claudeCodeSystemPrompt>>)
            ELSE IF System.items[1].kind = "map"
                 THEN IF System.items[1].text # Some(defaultSystemMessage)
                      THEN MapList(<<claudeCodeSystemPrompt>>
                                   \o SelectSeq(System.items, LAMBDA e : e.kind = "map"))
                      ELSE System
                 ELSE MapList(<<claudeCodeSystemPrompt>>)
      [] System.shape = "media" ->
            IF Len(System.items) = 0
            THEN MapList(<<claudeCodeSystemPrompt>>)
            ELSE LET firstText == IF System.items[1].text # None
                                  THEN System.items[1].text[1] ELSE ""
                 IN  IF firstText # defaultSystemMessage
                     THEN MapList(<<claudeCodeSystemPrompt>>
                                  \o [i \in 1..Len(System.items) |-> MediaToMap(System.items[i])])
                     ELSE System
      [] System.shape = "string" ->
            IF System.str # defaultSystemMessage
            THEN MapList(<<claudeCodeSystemPrompt>>)
            ELSE System
      [] OTHER ->
            MapList(<<claudeCodeSystemPrompt>>)

(***************************************************************************)
(* fixSystemCacheControl, fixCacheControlFormat                            *)
(***************************************************************************)
\* The repair of one element of a list of maps: a cache_control that is a
\* map[string]interface{} with type "ephemeral" and no ttl is replaced.
fixMapItem(item) ==
    IF /\ item.kind = "map"
       /\ item.cc # None
       /\ item.cc[1].rep = "any"
       /\ item.cc[1].type = "ephemeral"
       /\ item.cc[1].ttl = None
    THEN [item EXCEPT !.cc = Some(fixedCacheControl)]
    ELSE item

\* The repair of one dto.ClaudeMediaMessage: a non-empty CacheControl that
\* decodes to type "ephemeral" with no ttl is replaced by the marshalled marker.
fixMediaItem(content) ==
    IF /\ content.cc # None
       /\ content.cc[1].type = "ephemeral"
       /\ content.cc[1].ttl = None
    THEN [content EXCEPT !.cc = Some(cacheControlData)]
    ELSE content

fixSystemCacheControl(System) ==
    IF System.shape \in {"maps", "untyped"}
    THEN [System EXCEPT !.items = [i \in 1..Len(@) |-> fixMapItem(@[i])]]
    ELSE System

fixCacheControlFormat(message) ==
    CASE message.Content.shape = "media" ->
            [message EXCEPT !.Content.items = [j \in 1..Len(@) |-> fixMediaItem(@[j])]]
      [] message.Content.shape = "untyped" ->
            [message EXCEPT !.Content.items = [j \in 1..Len(@) |-> fixMapItem(@[j])]]
      [] OTHER -> message

(***************************************************************************)
(* addCacheControlToMessage, addCacheControl                               *)
(***************************************************************************)
\* A variant that stores the marker on the last block whether or not the
\* block already carries one.
addCacheControlOverwrite(message) ==
    CASE message.Content.shape = "string" ->
            [message EXCEPT !.Content =
                Value("media", "", <<Block("media", "text", Some(message.Content.str),
                                           Some(cacheControlData))>>)]
      [] message.Content.shape = "media" /\ Len(message.Content.items) > 0 ->
            [message EXCEPT !.Content.items[Len(message.Content.items)].cc = Some(cacheControlData)]
      [] message.Content.shape = "untyped" /\ Len(message.Content.items) > 0 ->
            IF message.Content.items[Len(message.Content.items)].kind = "map"
            THEN [message EXCEPT !.Content.items[Len(message.Content.items)].cc = Some(fixedCacheControl)]
            ELSE message
      [] OTHER -> message

addCacheControlToMessage(message) ==
    CASE message.Content.shape = "string" ->
            [message EXCEPT !.Content =
                Value("media", "", <<Block("media", "text", Some(message.Content.str),
                                           Some(cacheControlData))>>)]
      [] message.Content.shape = "media" ->
            IF Len(message.Content.items) > 0
            THEN LET lastContentIndex == Len(message.Content.items)
                 IN  IF message.Content.items[lastContentIndex].cc = None
                     THEN [message EXCEPT !.Content.items[lastContentIndex].cc =
                                              Some(cacheControlData)]
                     ELSE message
            ELSE message
      [] message.Content.shape = "untyped" ->
            IF Len(message.Content.items) > 0
            THEN LET lastContentIndex == Len(message.Content.items)
                 IN  IF /\ message.Content.items[lastContentIndex].kind = "map"
                        /\ message.Content.items[lastContentIndex].cc = None
                     THEN [message EXCEPT !.Content.items[lastContentIndex].cc =
                                              Some(fixedCacheControl)]
                     ELSE message
            ELSE message
      [] OTHER -> message

\* Index of the last message with role "user", 0 when there is none.
LastUserIndex(messages) ==
    LET users == {i \in 1..Len(messages) : messages[i].Role = "user"}
    IN  IF users = {} THEN 0 ELSE CHOOSE i \in users : \A j \in users : j <= i

\* A variant that marks every user message, not only the last one.
addCacheControlEveryUser(messages) ==
    [i \in 1..Len(messages) |->
        IF messages[i].Role = "user"
        THEN addCacheControlToMessage(fixCacheControlFormat(messages[i]))
        ELSE fixCacheControlFormat(messages[i])]

addCacheControl(messages) ==
    IF Len(messages) = 0
    THEN messages
    ELSE LET fixed == [i \in 1..Len(messages) |-> fixCacheControlFormat(messages[i])]
             last  == LastUserIndex(fixed)
         IN  [i \in 1..Len(fixed) |->
                 IF i = last THEN addCacheControlToMessage(fixed[i]) ELSE fixed[i]]

(***************************************************************************)
(* filterRequestFields, addMetadataIfMissing, ConvertClaudeRequest         *)
(***************************************************************************)
filterRequestFields(req) ==
    [req EXCEPT !.TopK = 0, !.TopP = "0", !.Temperature = None]

\* generateMetadata draws the user id at random: id is the value drawn.
addMetadataIfMissing(req, id) ==
    IF req.Metadata # None
    THEN req
    ELSE [req EXCEPT !.Metadata = Some([user_id |-> id])]

ConvertClaudeRequest(req, id) ==
    LET r1 == [req EXCEPT !.System = processClaudeCodeSystemPrompt(@)]
        r2 == [r1 EXCEPT !.System = fixSystemCacheControl(@)]
        r3 == filterRequestFields(r2)
        r4 == [r3 EXCEPT !.Messages = addCacheControl(@)]
    IN  addMetadataIfMissing(r4, id)

(***************************************************************************)
(* RequestOpenAI2ClaudeMessage                                             *)
(*                                                                         *)
(* A model name is the sequence of its parts, so that HasSuffix and        *)
(* TrimSuffix are computed on it.                                          *)
(***************************************************************************)
HasThinkingSuffix(model) == Len(model) > 0 /\ model[Len(model)] = "-thinking"

TrimThinkingSuffix(model) ==
    IF HasThinkingSuffix(model) THEN SubSeq(model, 1, Len(model) - 1) ELSE model

\* The zero value of dto.ClaudeRequest.
emptyClaudeRequest ==
    [Model |-> <<>>, System |-> Value("nil", "", <<>>), Messages |-> <<>>,
     MaxTokens |-> 0, StopSequences |-> None, Temperature |-> None,
     TopP |-> "0", TopK |-> 0, Thinking |-> None, Metadata |-> None]

\* A variant that leaves a resolved 4096 as it is.
resolveMaxTokensNoBump(tr, st) ==
    IF tr.MaxTokens = 0 THEN st.DefaultMaxTokens ELSE tr.MaxTokens

\* Lines 646-653: the caller's max_tokens, else the configured default of
\* the model; 4096 becomes 16384.
resolveMaxTokens(tr, st) ==
    LET m == IF tr.MaxTokens = 0 THEN st.DefaultMaxTokens ELSE tr.MaxTokens
    IN  IF m = 4096 THEN 16384 ELSE m

\* int(float64(maxTokens) * percentage), the percentage given in percent.
\* For the percentages of the model (0.5, 0.8) and max_tokens below 2^31 the
\* float64 product truncates to the exact quotient.
budgetTokens(maxTokens, percent) == (maxTokens * percent) \div 100

\* A variant that does not raise max_tokens to 1280 first.
thinkingAdapterNoFloor(req, tr, st) ==
    IF st.ThinkingAdapterEnabled /\ HasThinkingSuffix(tr.Model)
    THEN [req EXCEPT
            !.Thinking = Some([Type |-> "enabled",
                               BudgetTokens |-> budgetTokens(req.MaxTokens, st.Percentage)]),
            !.TopP = "0",
            !.Temperature = Some("1.0"),
            !.Model = IF st.PreserveThinkingSuffix THEN tr.Model
                      ELSE TrimThinkingSuffix(tr.Model)]
    ELSE req

\* Lines 655-674: the "-thinking" suffix rule.
thinkingAdapter(req, tr, st) ==
    IF st.ThinkingAdapterEnabled /\ HasThinkingSuffix(tr.Model)
    THEN LET maxTokens == IF req.MaxTokens < 1280 THEN 1280 ELSE req.MaxTokens
         IN  [req EXCEPT
                !.MaxTokens = maxTokens,
                !.Thinking = Some([Type |-> "enabled",
                                   BudgetTokens |-> budgetTokens(maxTokens, st.Percentage)]),
                !.TopP = "0",
                !.Temperature = Some("1.0"),
                !.Model = IF st.PreserveThinkingSuffix THEN tr.Model
                          ELSE TrimThinkingSuffix(tr.Model)]
    ELSE req

\* Lines 676-694: reasoning_effort.
reasoningEffort(req, tr) ==
    CASE tr.ReasoningEffort = "low" ->
            [req EXCEPT !.Thinking = Some([Type |-> "enabled", BudgetTokens |-> 1280])]
      [] tr.ReasoningEffort = "medium" ->
            [req EXCEPT !.Thinking = Some([Type |-> "enabled", BudgetTokens |-> 2048])]
      [] tr.ReasoningEffort = "high" ->
            [req EXCEPT !.Thinking = Some([Type |-> "enabled", BudgetTokens |-> 4096])]
      [] OTHER -> req

\* Lines 697-710, once the reasoning object has decoded.
reasoningObject(req, tr) ==
    IF tr.Reasoning # None /\ tr.Reasoning[1].MaxTokens > 0
    THEN [req EXCEPT !.Thinking = Some([Type |-> "enabled",
                                        BudgetTokens |-> tr.Reasoning[1].MaxTokens])]
    ELSE req

\* A variant in which reasoning_effort is applied after the reasoning object.
thinkingEffortLast(req, tr, st) ==
    reasoningEffort(reasoningObject(thinkingAdapter(req, tr, st), tr), tr)

\* Lines 655-710: the three sources of the thinking directive, in code order.
thinkingResolution(req, tr, st) ==
    reasoningObject(reasoningEffort(thinkingAdapter(req, tr, st), tr), tr)

\* Lines 712-723: TRUE when an element's type assertion stop.(string) panics.
stopPanics(tr) ==
    /\ tr.Stop.shape = "list"
    /\ \E i \in 1..Len(tr.Stop.items) : ~tr.Stop.items[i].isString

stopSequences(tr) ==
    CASE tr.Stop.shape = "string" -> Some(<<tr.Stop.str>>)
      [] tr.Stop.shape = "list" ->
            Some([i \in 1..Len(tr.Stop.items) |-> tr.Stop.items[i].value])
      [] OTHER -> None

(***************************************************************************)
(* dto.Message: a Dialect-O message.  Content is nil, a string, or a list  *)
(* of decoded parts (maps with a type, and a text or an image url kept in  *)
(* the text field).  ToolCalls is the raw JSON of the calls, absent or a   *)
(* list of calls; a call's Arguments is a JSON text with its JSON kind.    *)
(***************************************************************************)
Message(role, content, toolCalls, toolCallId) ==
    [Role |-> role, Content |-> content, ToolCalls |-> toolCalls, ToolCallId |-> toolCallId]

IsStringContent(message) == message.Content.shape = "string"

\* The concatenated text of the parts of type "text".
RECURSIVE TextOfParts(_)
TextOfParts(items) ==
    IF items = <<>>
    THEN ""
    ELSE (IF Head(items).kind = "map" /\ Head(items).type = "text" /\ Head(items).text # None
          THEN Head(items).text[1] ELSE "")
         \o TextOfParts(Tail(items))

StringContent(message) ==
    IF message.Content.shape = "string"
    THEN message.Content.str
    ELSE IF message.Content.shape = "untyped"
         THEN TextOfParts(message.Content.items)
         ELSE ""

SetStringContent(message, content) ==
    [message EXCEPT !.Content = Value("string", content, <<>>)]

\* The content as a list of dto.MediaContent: a string is one text part.
ParseContent(message) ==
    IF message.Content.shape = "string"
    THEN <<[Type |-> "text", Text |-> message.Content.str, Url |-> ""]>>
    ELSE IF message.Content.shape = "untyped"
         THEN [i \in 1..Len(message.Content.items) |->
                  LET item == message.Content.items[i]
                      value == IF item.text # None THEN item.text[1] ELSE ""
                  IN  IF item.type = "text"
                      THEN [Type |-> "text", Text |-> value, Url |-> ""]
                      ELSE [Type |-> item.type, Text |-> "", Url |-> value]]
         ELSE <<>>

ParseToolCalls(message) == IF message.ToolCalls = None THEN <<>> ELSE message.ToolCalls[1]

\* strings.Trim(s, "\""): the leading and trailing quote characters removed.
RECURSIVE TrimQuotes(_)
TrimQuotes(s) ==
    IF Len(s) > 0 /\ SubSeq(s, 1, 1) = "\""
    THEN TrimQuotes(SubSeq(s, 2, Len(s)))
    ELSE IF Len(s) > 0 /\ SubSeq(s, Len(s), Len(s)) = "\""
         THEN TrimQuotes(SubSeq(s, 1, Len(s) - 1))
         ELSE s

(***************************************************************************)
(* Lines 725-754: message flattening.                                      *)
(***************************************************************************)
\* A variant that merges same-role neighbours whatever their content is.
canMergeAnyShape(lastMessage, message) ==
    lastMessage.Role = message.Role /\ lastMessage.Role # "tool"

\* Lines 743-744: when the message is merged into the previous one.
canMerge(lastMessage, message) ==
    /\ lastMessage.Role = message.Role
    /\ lastMessage.Role # "tool"
    /\ IsStringContent(lastMessage)
    /\ IsStringContent(message)

\* One iteration of the loop: the message appended for the inbound message
\* (line 745: the merged text).
\* The role is the loop copy's, which the defaulting at line 731 never reaches.
fmtMessage(lastMessage, message) ==
    LET m0 == Message(message.Role, message.Content,
                      IF message.Role = "assistant" THEN message.ToolCalls ELSE None,
                      IF message.Role = "tool" THEN message.ToolCallId ELSE "")
        m1 == IF canMerge(lastMessage, message)
              THEN SetStringContent(m0,
                       TrimQuotes(StringContent(lastMessage) \o " "
                                  \o StringContent(message)))
              ELSE m0
    IN  IF m1.Content.shape = "nil" THEN SetStringContent(m1, "...") ELSE m1

RECURSIVE flattenMessages(_, _, _)
flattenMessages(messages, formatted, lastMessage) ==
    IF messages = <<>>
    THEN formatted
    ELSE LET message == Head(messages)
             kept == IF canMerge(lastMessage, message)
                     THEN SubSeq(formatted, 1, Len(formatted) - 1)
                     ELSE formatted
             m == fmtMessage(lastMessage, message)
         IN  flattenMessages(Tail(messages), Append(kept, m), m)

(***************************************************************************)
(* Lines 756-881: mapping of the flattened messages.                       *)
(***************************************************************************)
\* Lines 783-791: the synthetic user message put in front.
placeholderMessage ==
    [Role |-> "user",
     Content |-> Value("media", "", <<Block("media", "text", Some("..."), None)>>)]

\* A variant that puts the placeholder in front of an assistant message only.
needsPlaceholderAssistantOnly(message) == message.Role = "assistant"

\* Line 782.
needsPlaceholder(message) == message.Role # "user"

\* Lines 809-813 and 819-823: the tool_result block of a tool message.
ToolResult(message) ==
    [kind |-> "media", type |-> "tool_result", text |-> None, cc |-> None,
     ToolUseId |-> message.ToolCallId, Content |-> message.Content]

\* Lines 798-825.  The type assertion at line 809 panics when the previous
\* user message holds a list that is not a []dto.ClaudeMediaMessage.
mapToolMessage(claudeMessages, message) ==
    IF Len(claudeMessages) > 0 /\ claudeMessages[Len(claudeMessages)].Role = "user"
    THEN LET n == Len(claudeMessages)
             content == claudeMessages[n].Content
             promoted == IF content.shape = "string"
                         THEN Value("media", "", <<Block("media", "text", Some(content.str), None)>>)
                         ELSE content
         IN  IF promoted.shape # "media"
             THEN [panics |-> TRUE, messages |-> claudeMessages]
             ELSE [panics |-> FALSE,
                   messages |-> [claudeMessages EXCEPT ![n].Content =
                                    [promoted EXCEPT !.items = Append(@, ToolResult(message))]]]
    ELSE [panics |-> FALSE,
          messages |-> Append(claudeMessages,
                              [Role |-> "user",
                               Content |-> Value("media", "", <<ToolResult(message)>>)])]

\* service.GetFileBase64FromUrl and service.DecodeBase64ImageData: the image
\* resolves unless it is the missing one.
ImageResolves(url) == url # "https://img/missing.png"

\* Lines 831-861: the media messages of the parts.
claudeMediaMessages(message) ==
    [i \in 1..Len(ParseContent(message)) |->
        LET mediaMessage == ParseContent(message)[i]
        IN  IF mediaMessage.Type = "text"
            THEN Block("media", "text", Some(mediaMessage.Text), None)
            ELSE [kind |-> "media", type |-> "image", text |-> None, cc |-> None,
                  Source |-> [Type |-> "base64", Data |-> mediaMessage.Url]]]

\* json.Unmarshal into a map[string]any: an object decodes, null leaves the
\* map empty, anything else is an error.
decodesToMap(arguments) == arguments.json \in {"object", "null"}

\* Lines 862-876: one tool_use block per call whose arguments decode.
toolUseBlocks(message) ==
    LET decodable == SelectSeq(ParseToolCalls(message),
                               LAMBDA toolCall : decodesToMap(toolCall.Arguments))
    IN  [i \in 1..Len(decodable) |->
            [kind |-> "media", type |-> "tool_use", text |-> None, cc |-> None,
             Id |-> decodable[i].ID, Name |-> decodable[i].Name,
             Input |-> IF decodable[i].Arguments.json = "object"
                       THEN decodable[i].Arguments.text ELSE "{}"]]

\* Lines 795-879 but for the tool role: the message appended.
claudeMessageOf(message) ==
    IF message.Role = "user" \/ message.Role = "assistant"
    THEN [Role |-> message.Role, Content |-> message.Content]
    ELSE IF IsStringContent(message) /\ message.ToolCalls = None
         THEN [Role |-> message.Role, Content |-> Value("string", StringContent(message), <<>>)]
         ELSE [Role |-> message.Role,
               Content |-> Value("media", "",
                                 claudeMediaMessages(message) \o toolUseBlocks(message))]

\* Lines 826-858: TRUE when the message takes the branch that resolves images
\* and one of them fails.
mappingFails(message) ==
    /\ message.Role \notin {"user", "assistant"}
    /\ ~(IsStringContent(message) /\ message.ToolCalls = None)
    /\ \E i \in 1..Len(ParseContent(message)) :
           /\ ParseContent(message)[i].Type # "text"
           /\ ~ImageResolves(ParseContent(message)[i].Url)

RECURSIVE mapMessages(_, _, _, _)
mapMessages(messages, claudeMessages, systemMessages, isFirstMessage) ==
    IF messages = <<>>
    THEN [outcome |-> "ok", claudeMessages |-> claudeMessages,
          systemMessages |-> systemMessages]
    ELSE LET message == Head(messages)
             started == IF isFirstMessage /\ needsPlaceholder(message)
                        THEN Append(claudeMessages, placeholderMessage)
                        ELSE claudeMessages
             \* Lines 762-777: the system element of a system message.
             systemElement ==
                 Block("map", "text",
                       Some(IF IsStringContent(message)
                            THEN StringContent(message)
                            ELSE TextOfParts(message.Content.items)),
                       None)
         IN  IF message.Role = "system"
             THEN mapMessages(Tail(messages), claudeMessages,
                              Append(systemMessages, systemElement),
                              isFirstMessage)
             ELSE IF message.Role = "tool"
                  THEN IF mapToolMessage(started, message).panics
                       THEN [outcome |-> "panic", claudeMessages |-> <<>>,
                             systemMessages |-> <<>>]
                       ELSE mapMessages(Tail(messages),
                                        mapToolMessage(started, message).messages,
                                        systemMessages, FALSE)
                  ELSE IF mappingFails(message)
                       THEN [outcome |-> "error", claudeMessages |-> <<>>,
                             systemMessages |-> <<>>]
                       ELSE mapMessages(Tail(messages),
                                        Append(started, claudeMessageOf(message)),
                                        systemMessages, FALSE)

\* The call's result: how it ended, the flattened messages (the local
\* formatMessages) and, when it returned a request, the request.  The record
\* carries the fields set at lines 627-723 and 725-900; the tool list and the
\* tool choice built at lines 543-644 are not part of it.
RequestOpenAI2ClaudeMessage(tr, st) ==
    LET r0 == [emptyClaudeRequest EXCEPT
                  !.Model = tr.Model, !.MaxTokens = tr.MaxTokens,
                  !.Temperature = tr.Temperature, !.TopP = tr.TopP, !.TopK = tr.TopK]
        r1 == [r0 EXCEPT !.MaxTokens = resolveMaxTokens(tr, st)]
        r2 == thinkingResolution(r1, tr, st)
        r3 == [r2 EXCEPT !.StopSequences = stopSequences(tr)]
        formatted == flattenMessages(tr.Messages, <<>>, Message("tool", Value("nil", "", <<>>), None, ""))
        mapped == mapMessages(formatted, <<>>, <<>>, TRUE)
        r4 == IF Len(mapped.systemMessages) > 0
              THEN [r3 EXCEPT !.System = MapList(mapped.systemMessages)]
              ELSE r3
        r5 == [r4 EXCEPT !.System = processClaudeCodeSystemPrompt(@)]
        r6 == [r5 EXCEPT !.Messages = addCacheControl(mapped.claudeMessages)]
    IN  IF tr.Reasoning # None /\ ~tr.Reasoning[1].valid
        THEN [outcome |-> "error", request |-> emptyClaudeRequest, formatMessages |-> <<>>]
        ELSE IF stopPanics(tr)
             THEN [outcome |-> "panic", request |-> emptyClaudeRequest, formatMessages |-> <<>>]
             ELSE IF mapped.outcome # "ok"
                  THEN [outcome |-> mapped.outcome, request |-> emptyClaudeRequest,
                        formatMessages |-> formatted]
                  ELSE [outcome |-> "ok", request |-> filterRequestFields(r6),
                        formatMessages |-> formatted]

(***************************************************************************)
(* Responses.  A dto.ClaudeResponse is the decoded form of one stream      *)
(* frame or of one complete body; decodes tells whether the JSON decoded.  *)
(* Error is the provider's error envelope (its type), Index the block      *)
(* index; ContentBlock, Delta and Message are pointers.                    *)
(***************************************************************************)
ClaudeUsage(input, output) ==
    [InputTokens |-> input, OutputTokens |-> output,
     CacheReadInputTokens |-> 0, CacheCreationInputTokens |-> 0]

\* The zero value of dto.ClaudeResponse.
emptyClaudeResponse ==
    [decodes |-> TRUE, Error |-> None, Type |-> "", Id |-> "", Model |-> "",
     Index |-> None, ContentBlock |-> None, Delta |-> None, Message |-> None,
     Usage |-> ClaudeUsage(0, 0), Completion |-> "", StopReason |-> "", Content |-> <<>>]

\* The zero value of dto.Usage.
emptyUsage ==
    [PromptTokens |-> 0, CompletionTokens |-> 0, TotalTokens |-> 0,
     CachedTokens |-> 0, CachedCreationTokens |-> 0]

\* The zero value of a delta or content block (dto.ClaudeMediaMessage).
emptyDelta ==
    [Type |-> "", Text |-> None, Thinking |-> None, PartialJson |-> None,
     StopReason |-> None]

stopReasonClaude2OpenAI(reason) ==
    CASE reason = "stop_sequence" -> "stop"
      [] reason = "end_turn" -> "stop"
      [] reason = "max_tokens" -> "length"
      [] reason = "tool_use" -> "tool_calls"
      [] OTHER -> reason

\* The zero value of a stream choice: its delta and its finish reason.
emptyChoice ==
    [Role |-> "", Content |-> None, ReasoningContent |-> None, ToolCalls |-> <<>>,
     FinishReason |-> None]

\* Lines 910-915.
fcIdx(claudeResponse) ==
    IF claudeResponse.Index = None
    THEN 0
    ELSE IF claudeResponse.Index[1] - 1 < 0 THEN 0 ELSE claudeResponse.Index[1] - 1

\* Lines 919-922 and 965-968.
withFinishReason(choice, reason) ==
    IF stopReasonClaude2OpenAI(reason) # "null"
    THEN [choice EXCEPT !.FinishReason = Some(stopReasonClaude2OpenAI(reason))]
    ELSE choice

\* Lines 975-978.
withTools(choice, tools) ==
    IF Len(tools) > 0
    THEN [choice EXCEPT !.Content = None, !.ToolCalls = tools]
    ELSE choice

\* Lines 903-982: TRUE when a nil pointer is dereferenced.
streamResponsePanics(reqMode, claudeResponse) ==
    /\ reqMode = "message"
    /\ \/ /\ claudeResponse.Type = "message_delta"
          /\ \/ claudeResponse.Delta = None
             \/ claudeResponse.Delta[1].StopReason = None
       \/ /\ claudeResponse.Type = "content_block_delta"
          /\ claudeResponse.Delta # None
          /\ claudeResponse.Delta[1].Type = "input_json_delta"
          /\ claudeResponse.Delta[1].PartialJson = None

\* Lines 923-974: the choice and the tool calls of a message-mode event that
\* yields a chunk.
messageChoice(claudeResponse) ==
    CASE claudeResponse.Type = "message_start" ->
            [emptyChoice EXCEPT !.Content = Some(""), !.Role = "assistant"]
      [] claudeResponse.Type = "content_block_start" ->
            withTools(emptyChoice,
                      IF claudeResponse.ContentBlock[1].Type = "tool_use"
                      THEN <<[Index |-> fcIdx(claudeResponse),
                              ID |-> claudeResponse.ContentBlock[1].Id,
                              Type |-> "function",
                              Name |-> claudeResponse.ContentBlock[1].Name,
                              Arguments |-> ""]>>
                      ELSE <<>>)
      [] claudeResponse.Type = "content_block_delta" ->
            IF claudeResponse.Delta = None
            THEN emptyChoice
            ELSE LET delta == claudeResponse.Delta[1]
                     c0 == [emptyChoice EXCEPT !.Content = delta.Text]
                 IN  CASE delta.Type = "input_json_delta" ->
                             withTools(c0, <<[Index |-> fcIdx(claudeResponse), ID |-> "",
                                              Type |-> "function", Name |-> "",
                                              Arguments |-> delta.PartialJson[1]]>>)
                       [] delta.Type = "signature_delta" ->
                             [c0 EXCEPT !.ReasoningContent = Some("\n")]
                       [] delta.Type = "thinking_delta" ->
                             [c0 EXCEPT !.ReasoningContent = delta.Thinking]
                       [] OTHER -> c0
      [] claudeResponse.Type = "message_delta" ->
            withFinishReason(emptyChoice, claudeResponse.Delta[1].StopReason[1])
      [] OTHER -> emptyChoice

\* Lines 924-973: TRUE when the event yields no response (return nil).
yieldsNil(claudeResponse) ==
    \/ claudeResponse.Type = "content_block_start" /\ claudeResponse.ContentBlock = None
    \/ claudeResponse.Type \notin {"message_start", "content_block_start",
                                   "content_block_delta", "message_delta"}

\* The chunk for one event, absent when the function returns nil.  Defined
\* when streamResponsePanics is FALSE.
StreamResponseClaude2OpenAI(reqMode, claudeResponse) ==
    IF reqMode = "completion"
    THEN Some([Object |-> "chat.completion.chunk", Id |-> "", Created |-> 0,
               Model |-> claudeResponse.Model,
               Choices |-> <<withFinishReason(
                                [emptyChoice EXCEPT !.Content = Some(claudeResponse.Completion)],
                                claudeResponse.StopReason)>>])
    ELSE IF yieldsNil(claudeResponse)
         THEN None
         ELSE Some([Object |-> "chat.completion.chunk",
                    Id |-> IF claudeResponse.Type = "message_start"
                           THEN claudeResponse.Message[1].Id ELSE "",
                    Created |-> 0,
                    Model |-> IF claudeResponse.Type = "message_start"
                              THEN claudeResponse.Message[1].Model
                              ELSE claudeResponse.Model,
                    Choices |-> <<messageChoice(claudeResponse)>>])

(***************************************************************************)
(* ClaudeResponseInfo and FormatClaudeResponseInfo.  ResponseText is the   *)
(* strings.Builder's content.                                              *)
(***************************************************************************)
\* Lines 1177-1183 and 1247-1253.
newClaudeResponseInfo(upstreamModelName) ==
    [ResponseId |-> "chatcmpl-1", Created |-> 1700000000, Model |-> upstreamModelName,
     ResponseText |-> "", Usage |-> emptyUsage, Done |-> FALSE]

\* Lines 1081 and 1084: TRUE when the nil Delta is dereferenced.
formatPanics(requestMode, claudeResponse) ==
    /\ requestMode = "message"
    /\ claudeResponse.Type = "content_block_delta"
    /\ claudeResponse.Delta = None

\* Lines 1070-1098: TRUE when the function returns true.
formatAccepts(requestMode, claudeResponse) ==
    \/ requestMode = "completion"
    \/ claudeResponse.Type \in {"message_start", "content_block_delta", "message_delta",
                                "content_block_start"}

\* A variant that leaves the completion flag as it is.
formatMessageDeltaWithoutDone(claudeResponse, accumulator) ==
    LET prompt == IF claudeResponse.Usage.InputTokens > 0
                  THEN claudeResponse.Usage.InputTokens
                  ELSE accumulator.Usage.PromptTokens
    IN  [accumulator EXCEPT
            !.Usage.PromptTokens = prompt,
            !.Usage.CompletionTokens = claudeResponse.Usage.OutputTokens,
            !.Usage.TotalTokens = prompt + claudeResponse.Usage.OutputTokens]

\* Lines 1087-1094: the accumulator after a message_delta event.
formatMessageDelta(claudeResponse, accumulator) ==
    LET prompt == IF claudeResponse.Usage.InputTokens > 0
                  THEN claudeResponse.Usage.InputTokens
                  ELSE accumulator.Usage.PromptTokens
    IN  [accumulator EXCEPT
            !.Usage.PromptTokens = prompt,
            !.Usage.CompletionTokens = claudeResponse.Usage.OutputTokens,
            !.Usage.TotalTokens = prompt + claudeResponse.Usage.OutputTokens,
            !.Done = TRUE]

\* Lines 1067-1099: the accumulator after the event.  Defined when
\* formatPanics is FALSE.
FormatClaudeResponseInfo(requestMode, claudeResponse, accumulator) ==
    IF requestMode = "completion"
    THEN [accumulator EXCEPT !.ResponseText = @ \o claudeResponse.Completion]
    ELSE CASE claudeResponse.Type = "message_start" ->
                [accumulator EXCEPT
                    !.ResponseId = claudeResponse.Message[1].Id,
                    !.Model = claudeResponse.Message[1].Model,
                    !.Usage.PromptTokens = claudeResponse.Message[1].Usage.InputTokens,
                    !.Usage.CachedTokens = claudeResponse.Message[1].Usage.CacheReadInputTokens,
                    !.Usage.CachedCreationTokens =
                        claudeResponse.Message[1].Usage.CacheCreationInputTokens,
                    !.Usage.CompletionTokens = claudeResponse.Message[1].Usage.OutputTokens]
           [] claudeResponse.Type = "content_block_delta" ->
                [accumulator EXCEPT !.ResponseText =
                    @ \o (IF claudeResponse.Delta[1].Text # None
                          THEN claudeResponse.Delta[1].Text[1] ELSE "")
                      \o (IF claudeResponse.Delta[1].Thinking # None
                          THEN claudeResponse.Delta[1].Thinking[1] ELSE "")]
           [] claudeResponse.Type = "message_delta" ->
                formatMessageDelta(claudeResponse, accumulator)
           [] OTHER -> accumulator

\* Lines 1100-1104: the chunk stamped with the accumulator's identity.
stamped(oaiResponse, accumulator) ==
    [oaiResponse EXCEPT !.Id = accumulator.ResponseId, !.Created = accumulator.Created,
                        !.Model = accumulator.Model]

(***************************************************************************)
(* Collaborators of the response path.                                     *)
(***************************************************************************)
\* service.CountTextToken: one token per character of the text.
CountTextToken(text) == Len(text)

\* service.ResponseText2Usage: a fresh usage seeded with the prompt tokens.
ResponseText2Usage(responseText, promptTokens) ==
    [emptyUsage EXCEPT !.PromptTokens = promptTokens,
                       !.CompletionTokens = CountTextToken(responseText),
                       !.TotalTokens = promptTokens + CountTextToken(responseText)]

(***************************************************************************)
(* HandleStreamResponseData.  What is written to the caller is a sequence  *)
(* of outputs: a chunk, a frame passed through, the usage trailer, the     *)
(* terminator.                                                             *)
(***************************************************************************)
\* A variant that takes a provider error envelope for an ordinary event.
frameErrorDecodeOnly(claudeResponse) ==
    IF ~claudeResponse.decodes THEN Some("bad_response_body") ELSE None

\* Lines 1110-1117 and 1202-1208: the error the decoded data is rejected with.
frameError(claudeResponse) ==
    IF ~claudeResponse.decodes
    THEN Some("bad_response_body")
    ELSE IF claudeResponse.Error # None /\ claudeResponse.Error[1] # ""
         THEN Some("claude_error")
         ELSE None

\* The result of handling one frame: the error returned, whether the call
\* panicked, the accumulator, the relay info and what was written.
frameResult(err, panics, accumulator, relayInfo, out) ==
    [err |-> err, panics |-> panics, claudeInfo |-> accumulator, info |-> relayInfo, out |-> out]

\* Lines 1118-1129: the Dialect-A relay format passes the frame through.
handleClaudeFormat(relayInfo, accumulator, claudeResponse) ==
    IF formatPanics(relayInfo.RequestMode, claudeResponse)
    THEN frameResult(None, TRUE, accumulator, relayInfo, <<>>)
    ELSE frameResult(None, FALSE,
                     IF formatAccepts(relayInfo.RequestMode, claudeResponse)
                     THEN FormatClaudeResponseInfo(relayInfo.RequestMode, claudeResponse, accumulator)
                     ELSE accumulator,
                     IF relayInfo.RequestMode = "message" /\ claudeResponse.Type = "message_start"
                     THEN [relayInfo EXCEPT !.UpstreamModelName = claudeResponse.Message[1].Model]
                     ELSE relayInfo,
                     <<[kind |-> "claude", data |-> claudeResponse]>>)

\* Lines 1130-1141.  helper.ObjectData is handed a nil response when the
\* event yields none and the accumulator accepts it; nilWritten tells whether
\* it writes the encoded nil or nothing.
handleOpenAIFormat(relayInfo, accumulator, claudeResponse, nilWritten) ==
    IF \/ streamResponsePanics(relayInfo.RequestMode, claudeResponse)
       \/ formatPanics(relayInfo.RequestMode, claudeResponse)
    THEN frameResult(None, TRUE, accumulator, relayInfo, <<>>)
    ELSE IF ~formatAccepts(relayInfo.RequestMode, claudeResponse)
         THEN frameResult(None, FALSE, accumulator, relayInfo, <<>>)
         ELSE LET response == StreamResponseClaude2OpenAI(relayInfo.RequestMode, claudeResponse)
                  formatted == FormatClaudeResponseInfo(relayInfo.RequestMode, claudeResponse, accumulator)
              IN  frameResult(None, FALSE, formatted, relayInfo,
                              IF response = None
                              THEN IF nilWritten THEN <<[kind |-> "null"]>> ELSE <<>>
                              ELSE <<[kind |-> "chunk",
                                      data |-> stamped(response[1], formatted)]>>)

HandleStreamResponseData(relayInfo, accumulator, claudeResponse, nilWritten) ==
    IF frameError(claudeResponse) # None
    THEN frameResult(frameError(claudeResponse), FALSE, accumulator, relayInfo, <<>>)
    ELSE IF relayInfo.RelayFormat = "claude"
         THEN handleClaudeFormat(relayInfo, accumulator, claudeResponse)
         ELSE handleOpenAIFormat(relayInfo, accumulator, claudeResponse, nilWritten)

(***************************************************************************)
(* HandleStreamFinalResponse.                                              *)
(***************************************************************************)
\* A variant that trusts the usage whenever it has completion tokens.
usageIncompleteZeroOnly(accumulator) == accumulator.Usage.CompletionTokens = 0

\* Line 1153.
usageIncomplete(accumulator) ==
    accumulator.Usage.CompletionTokens = 0 \/ ~accumulator.Done

\* Lines 1147-1159: the usage after reconciliation.
reconciledUsage(relayInfo, accumulator) ==
    IF relayInfo.RequestMode = "completion"
    THEN ResponseText2Usage(accumulator.ResponseText, relayInfo.PromptTokens)
    ELSE IF usageIncomplete(accumulator)
         THEN ResponseText2Usage(accumulator.ResponseText, accumulator.Usage.PromptTokens)
         ELSE accumulator.Usage

\* A variant that writes the usage trailer whether or not it was asked for.
finalOutputsAlwaysUsage(relayInfo, accumulator) ==
    IF relayInfo.RelayFormat = "openai"
    THEN <<[kind |-> "usage", Id |-> accumulator.ResponseId, Created |-> accumulator.Created,
            Model |-> relayInfo.UpstreamModelName, Usage |-> accumulator.Usage],
           [kind |-> "done"]>>
    ELSE <<>>

\* Lines 1161-1173: the usage trailer (helper.GenerateFinalUsageResponse) and
\* the terminator (helper.Done).
finalOutputs(relayInfo, accumulator) ==
    IF relayInfo.RelayFormat = "openai"
    THEN (IF relayInfo.ShouldIncludeUsage
          THEN <<[kind |-> "usage", Id |-> accumulator.ResponseId,
                  Created |-> accumulator.Created, Model |-> relayInfo.UpstreamModelName,
                  Usage |-> accumulator.Usage]>>
          ELSE <<>>)
         \o <<[kind |-> "done"]>>
    ELSE <<>>

HandleStreamFinalResponse(relayInfo, accumulator) ==
    LET reconciled == [accumulator EXCEPT !.Usage = reconciledUsage(relayInfo, accumulator)]
    IN  [claudeInfo |-> reconciled, out |-> finalOutputs(relayInfo, reconciled)]

(***************************************************************************)
(* ResponseClaude2OpenAI, HandleClaudeResponseData, ClaudeHandler.         *)
(***************************************************************************)
\* dto.ClaudeMediaMessage.GetText: the text, empty when the pointer is nil.
GetText(content) == IF content.Text # None THEN content.Text[1] ELSE ""

\* strings.TrimPrefix(s, " ").
TrimSpacePrefix(s) ==
    IF Len(s) > 0 /\ SubSeq(s, 1, 1) = " " THEN SubSeq(s, 2, Len(s)) ELSE s

\* Lines 1015-1034: the text of the last text item, the first item's text
\* when there is none.
RECURSIVE responseTextOf(_, _)
responseTextOf(content, text) ==
    IF content = <<>>
    THEN text
    ELSE responseTextOf(Tail(content),
                        IF Head(content).Type = "text" THEN GetText(Head(content)) ELSE text)

RECURSIVE thinkingContentOf(_, _)
thinkingContentOf(content, thinking) ==
    IF content = <<>>
    THEN thinking
    ELSE thinkingContentOf(Tail(content),
                           IF Head(content).Type = "thinking" /\ Head(content).Thinking # None
                           THEN Head(content).Thinking[1] ELSE thinking)

toolCallsOf(content) ==
    LET uses == SelectSeq(content, LAMBDA message : message.Type = "tool_use")
    IN  [i \in 1..Len(uses) |->
            [ID |-> uses[i].Id, Type |-> "function", Name |-> uses[i].Name,
             Arguments |-> uses[i].Input]]

ResponseClaude2OpenAI(reqMode, claudeResponse) ==
    LET first == IF Len(claudeResponse.Content) > 0
                 THEN GetText(claudeResponse.Content[1]) ELSE ""
        finish == stopReasonClaude2OpenAI(claudeResponse.StopReason)
        completionChoice ==
            [Index |-> 0, Role |-> "assistant",
             Content |-> TrimSpacePrefix(claudeResponse.Completion),
             ReasoningContent |-> "", ToolCalls |-> <<>>, FinishReason |-> finish]
        choice ==
            [Index |-> 0, Role |-> "assistant",
             Content |-> IF reqMode = "completion" THEN first
                         ELSE responseTextOf(claudeResponse.Content, first),
             ReasoningContent |-> IF reqMode = "completion" THEN ""
                                  ELSE thinkingContentOf(claudeResponse.Content, ""),
             ToolCalls |-> IF reqMode = "completion" THEN <<>>
                           ELSE toolCallsOf(claudeResponse.Content),
             FinishReason |-> finish]
    IN  [Id |-> IF reqMode = "completion" THEN "chatcmpl-uuid" ELSE claudeResponse.Id,
         Object |-> "chat.completion", Model |-> claudeResponse.Model,
         Choices |-> IF reqMode = "completion"
                     THEN <<completionChoice, choice>>
                     ELSE <<choice>>,
         Usage |-> emptyUsage]

\* Lines 1209-1222: the usage of a complete response.
responseUsage(relayInfo, accumulator, claudeResponse) ==
    IF relayInfo.RequestMode = "completion"
    THEN [accumulator.Usage EXCEPT
             !.PromptTokens = relayInfo.PromptTokens,
             !.CompletionTokens = CountTextToken(claudeResponse.Completion),
             !.TotalTokens = relayInfo.PromptTokens + CountTextToken(claudeResponse.Completion)]
    ELSE [accumulator.Usage EXCEPT
             !.PromptTokens = claudeResponse.Usage.InputTokens,
             !.CompletionTokens = claudeResponse.Usage.OutputTokens,
             !.TotalTokens = claudeResponse.Usage.InputTokens + claudeResponse.Usage.OutputTokens,
             !.CachedTokens = claudeResponse.Usage.CacheReadInputTokens,
             !.CachedCreationTokens = claudeResponse.Usage.CacheCreationInputTokens]

\* A variant that rejects only a body that does not decode.
HandleClaudeResponseDataDecodeOnly(relayInfo, accumulator, claudeResponse) ==
    IF frameErrorDecodeOnly(claudeResponse) # None
    THEN [err |-> frameErrorDecodeOnly(claudeResponse), claudeInfo |-> accumulator,
          out |-> <<>>]
    ELSE LET usage == responseUsage(relayInfo, accumulator, claudeResponse)
         IN  [err |-> None,
              claudeInfo |-> [accumulator EXCEPT !.Usage = usage],
              out |-> IF relayInfo.RelayFormat = "openai"
                      THEN <<[kind |-> "response",
                              data |-> [ResponseClaude2OpenAI(relayInfo.RequestMode, claudeResponse)
                                           EXCEPT !.Usage = usage]]>>
                      ELSE <<[kind |-> "claude", data |-> claudeResponse]>>]

HandleClaudeResponseData(relayInfo, accumulator, claudeResponse) ==
    IF frameError(claudeResponse) # None
    THEN [err |-> frameError(claudeResponse), claudeInfo |-> accumulator, out |-> <<>>]
    ELSE LET usage == responseUsage(relayInfo, accumulator, claudeResponse)
         IN  [err |-> None,
              claudeInfo |-> [accumulator EXCEPT !.Usage = usage],
              out |-> IF relayInfo.RelayFormat = "openai"
                      THEN <<[kind |-> "response",
                              data |-> [ResponseClaude2OpenAI(relayInfo.RequestMode, claudeResponse)
                                           EXCEPT !.Usage = usage]]>>
                      ELSE <<[kind |-> "claude", data |-> claudeResponse]>>]

\* Lines 1256-1298: the body handed to the decoder.  A body is what was read
\* (readFails), its Content-Encoding, whether it decompresses (intact) and the
\* response its plain bytes decode to; a compressed body that does not
\* decompress is used as it is and does not decode.
responseBody(httpBody) ==
    IF httpBody.ContentEncoding \in {"gzip", "deflate"} /\ ~httpBody.intact
    THEN [emptyClaudeResponse EXCEPT !.decodes = FALSE]
    ELSE httpBody.response

\* Lines 1244-1309: the error and usage returned and what was written.
ClaudeHandler(relayInfo, httpBody) ==
    IF httpBody.readFails
    THEN [err |-> Some("bad_response_body"), usage |-> None, out |-> <<>>]
    ELSE LET handled == HandleClaudeResponseData(relayInfo,
                                                 newClaudeResponseInfo(relayInfo.UpstreamModelName),
                                                 responseBody(httpBody))
         IN  IF handled.err # None
             THEN [err |-> handled.err, usage |-> None, out |-> <<>>]
             ELSE [err |-> None, usage |-> Some(handled.claudeInfo.Usage), out |-> handled.out]

(***************************************************************************)
(* Inputs.                                                                 *)
(***************************************************************************)
\* Markers a caller sends: none, ephemeral without ttl, ephemeral with ttl.
InboundMarkers(rep) == {None, Some(Marker(rep, None)), Some(Marker(rep, Some("5m")))}

SystemTexts == {None, Some(defaultSystemMessage), Some("Be terse.")}

SystemMaps == {Block("map", "text", t, c) : t \in SystemTexts, c \in InboundMarkers("any")}

SystemMedia == {Block("media", "text", t, c) : t \in SystemTexts, c \in InboundMarkers("json")}

\* An element of a []interface{} that is no map, such as a bare string.
RawElements == {Block("raw", "", Some("plain"), None)}

Systems ==
    {Value("nil", "", <<>>), Value("other", "", <<>>)}
    \cup {Value("string", s, <<>>) : s \in {"", defaultSystemMessage, "Be terse."}}
    \cup {Value("maps", "", items) : items \in SeqsUpTo(SystemMaps, MaxSystemLen)}
    \cup {Value("untyped", "", items) : items \in SeqsUpTo(SystemMaps \cup RawElements, MaxSystemLen)}
    \cup {Value("media", "", items) : items \in SeqsUpTo(SystemMedia, MaxSystemLen)}

ContentMedia == {Block("media", "text", Some("hi"), c) : c \in InboundMarkers("json")}

ContentElements == {Block("map", "text", Some("hi"), c) : c \in InboundMarkers("any")} \cup RawElements

\* The message contents of (exactly) k blocks; a bare string counts as one.
ContentsWith(k) ==
    {Value("media", "", items) : items \in [1..k -> ContentMedia]}
    \cup {Value("untyped", "", items) : items \in [1..k -> ContentElements]}
    \cup (IF k = 1 THEN {Value("string", "hi", <<>>)} ELSE {})

MessagesWith(k) == {[Role |-> r, Content |-> c] : r \in {"user", "assistant"}, c \in ContentsWith(k)}

RECURSIVE Sum(_)
Sum(s) == IF s = <<>> THEN 0 ELSE Head(s) + Sum(Tail(s))

\* A profile gives the number of blocks of each message of a list: at most
\* MaxMessages messages, at most MaxTotalBlocks blocks in all.
BlockProfiles == {ks \in SeqsUpTo(0..MaxTotalBlocks, MaxMessages) : Sum(ks) <= MaxTotalBlocks}

\* The message lists of a profile.
RECURSIVE MessageLists(_)
MessageLists(ks) ==
    IF ks = <<>>
    THEN {<<>>}
    ELSE {<<m>> \o rest : m \in MessagesWith(Head(ks)), rest \in MessageLists(Tail(ks))}

ClaudeRequest(system, messages, temperature, topP, topK, metadata) ==
    [emptyClaudeRequest EXCEPT
        !.Model = <<"claude-sonnet-4">>, !.MaxTokens = 1024,
        !.System = system, !.Messages = messages,
        !.Temperature = temperature, !.TopP = topP, !.TopK = topK,
        !.Metadata = metadata]

\* A request that varies the system field only.
SystemRequest(system) == ClaudeRequest(system, <<>>, None, "0", 0, None)

\* A request that varies the messages only.
MessageRequest(messages) ==
    ClaudeRequest(Value("nil", "", <<>>), messages, None, "0", 0, None)

\* Requests that vary every field a little.
MixedRequests ==
    {ClaudeRequest(s, ms, sampling[1], sampling[2], sampling[3], md) :
        s \in {Value("string", "Be terse.", <<>>),
               Value("untyped", "", <<Block("map", "text", Some("Be terse."),
                                            Some(Marker("any", None)))>>),
               Value("media", "", <<Block("media", "text", Some(defaultSystemMessage),
                                          Some(Marker("json", None)))>>)},
        ms \in MessageLists(<<0>>) \cup MessageLists(<<1>>),
        sampling \in {<<None, "0", 0>>, <<Some("0.7"), "0.9", 40>>},
        md \in {None, Some([user_id |-> "caller"])}}

\* The user ids generateMetadata may draw.
GeneratedIds == {"id1_session1", "id2_session2"}

ModelNames == {<<"claude-sonnet-4">>, <<"claude-sonnet-4", "-thinking">>}

StopElements == {[isString |-> TRUE, value |-> "END"], [isString |-> TRUE, value |-> "STOP"],
                 [isString |-> FALSE, value |-> "7"]}

Stops ==
    {Value("nil", "", <<>>), Value("other", "", <<>>), Value("string", "END", <<>>)}
    \cup {Value("list", "", items) : items \in SeqsUpTo(StopElements, MaxStop)}

\* The reasoning field: absent, undecodable, or an object with max_tokens.
Reasonings ==
    {None, Some([valid |-> FALSE, MaxTokens |-> 0])}
    \cup {Some([valid |-> TRUE, MaxTokens |-> n]) : n \in {0, 3000}}

TextRequests ==
    [Model : ModelNames,
     MaxTokens : {0, 1000, 4096, 5000},
     Temperature : {Some("0.7")}, TopP : {"0.9"}, TopK : {40},
     ReasoningEffort : {"", "low", "medium", "high", "minimal"},
     Reasoning : Reasonings,
     Stop : Stops,
     Messages : {<<>>}]

SettingsValues ==
    [ThinkingAdapterEnabled : {FALSE}, Percentage : {80},
     PreserveThinkingSuffix : {FALSE}, DefaultMaxTokens : {1000, 4096, 8192}]
    \cup [ThinkingAdapterEnabled : {TRUE}, Percentage : {50, 80},
          PreserveThinkingSuffix : BOOLEAN, DefaultMaxTokens : {1000, 4096, 8192}]

noTextRequest ==
    [Model |-> <<>>, MaxTokens |-> 0, Temperature |-> None, TopP |-> "0", TopK |-> 0,
     ReasoningEffort |-> "", Reasoning |-> None, Stop |-> Value("nil", "", <<>>),
     Messages |-> <<>>]

defaultSettings ==
    [ThinkingAdapterEnabled |-> FALSE, Percentage |-> 80,
     PreserveThinkingSuffix |-> FALSE, DefaultMaxTokens |-> 8192]

(***************************************************************************)
(* Inputs of the message conversion.                                       *)
(***************************************************************************)
StringValue(s) == Value("string", s, <<>>)

TextPart(t) == Block("map", "text", Some(t), None)

ImagePart(url) == Block("map", "image_url", Some(url), None)

PartsValue(items) == Value("untyped", "", items)

ToolCall(id, json, text) ==
    [ID |-> id, Name |-> "lookup", Arguments |-> [json |-> json, text |-> text]]

OpenAIMessages ==
    {Message("user", c, None, "") :
        c \in {Value("nil", "", <<>>), StringValue("hi"), StringValue("\"yo\""),
               PartsValue(<<TextPart("see")>>)}}
    \cup {Message("assistant", c, None, "") :
        c \in {StringValue("ok"), PartsValue(<<TextPart("sure")>>)}}
    \cup {Message("assistant", StringValue("calling"), Some(calls_), "") :
        calls_ \in {<<ToolCall("call_1", "object", "{\"q\":1}")>>,
                    <<ToolCall("call_1", "object", "{\"q\":1}"),
                      ToolCall("call_2", "array", "[1]")>>}}
    \cup {Message("tool", StringValue("42"), None, "call_1"),
          Message("tool", StringValue("43"), None, "call_2")}
    \cup {Message("system", c, None, "") :
        c \in {StringValue("Be terse."), PartsValue(<<TextPart("Be kind.")>>)}}
    \cup {Message("", c, None, "") :
        c \in {StringValue("anon"), PartsValue(<<TextPart("look")>>),
               PartsValue(<<ImagePart("https://img/cat.png")>>),
               PartsValue(<<ImagePart("https://img/missing.png")>>)}}

(***************************************************************************)
(* Inputs of the response path.                                            *)
(***************************************************************************)
Frame(type) == [emptyClaudeResponse EXCEPT !.Type = type]

badFrame == [emptyClaudeResponse EXCEPT !.decodes = FALSE]

errorFrame(type) == [Frame("error") EXCEPT !.Error = Some(type)]

messageStart(input, output) ==
    [Frame("message_start") EXCEPT
        !.Message = Some([Id |-> "msg_1", Model |-> "claude-sonnet-4-20250514",
                          Usage |-> ClaudeUsage(input, output)])]

blockStart(index, block) ==
    [Frame("content_block_start") EXCEPT !.Index = Some(index), !.ContentBlock = block]

textBlock == Some([Type |-> "text", Id |-> "", Name |-> ""])

toolUseBlock == Some([Type |-> "tool_use", Id |-> "toolu_1", Name |-> "lookup"])

blockDelta(delta) == [Frame("content_block_delta") EXCEPT !.Index = Some(0), !.Delta = delta]

textDelta(t) == blockDelta(Some([emptyDelta EXCEPT !.Type = "text_delta", !.Text = Some(t)]))

thinkingDelta(t) ==
    blockDelta(Some([emptyDelta EXCEPT !.Type = "thinking_delta", !.Thinking = Some(t)]))

jsonDelta(j) ==
    blockDelta(Some([emptyDelta EXCEPT !.Type = "input_json_delta", !.PartialJson = j]))

messageDelta(delta, input, output) ==
    [Frame("message_delta") EXCEPT !.Delta = delta, !.Usage = ClaudeUsage(input, output)]

stopDelta(reason) == Some([emptyDelta EXCEPT !.StopReason = reason])

completionFrame(completion, reason) ==
    [Frame("completion") EXCEPT !.Completion = completion, !.StopReason = reason]

\* The frames of a message-mode stream, well-formed or not.
Frames ==
    {badFrame, errorFrame("overloaded_error"), errorFrame(""),
     messageStart(10, 1), messageStart(0, 0),
     blockStart(0, textBlock), blockStart(2, toolUseBlock), blockStart(0, None),
     textDelta("a"), textDelta("b"), thinkingDelta("t"), jsonDelta(Some("{}")),
     jsonDelta(None),
     blockDelta(Some([emptyDelta EXCEPT !.Type = "signature_delta"])), blockDelta(None),
     messageDelta(stopDelta(Some("end_turn")), 0, 5),
     messageDelta(stopDelta(Some("max_tokens")), 12, 0),
     messageDelta(stopDelta(None), 0, 5), messageDelta(None, 0, 5),
     Frame("message_stop"), Frame("ping")}

RelayInfo(format, includeUsage, promptTokens, requestMode) ==
    [RelayFormat |-> format, ShouldIncludeUsage |-> includeUsage,
     UpstreamModelName |-> "claude-sonnet-4", PromptTokens |-> promptTokens,
     RequestMode |-> requestMode]

RelayFormats == {"openai", "claude"}

ContentItem(type, text, thinking) ==
    [Type |-> type, Text |-> text, Thinking |-> thinking,
     Id |-> IF type = "tool_use" THEN "toolu_1" ELSE "",
     Name |-> IF type = "tool_use" THEN "lookup" ELSE "",
     Input |-> IF type = "tool_use" THEN "{\"q\":1}" ELSE ""]

\* The complete responses of message mode and of completion mode.
MessageResponses ==
    {[emptyClaudeResponse EXCEPT
         !.Type = "message", !.Id = "msg_1", !.Model = "claude-sonnet-4-20250514",
         !.Content = content, !.StopReason = "end_turn",
         !.Usage = ClaudeUsage(10, output)] :
        content \in {<<>>,
                     <<ContentItem("text", Some("hello"), None)>>,
                     <<ContentItem("thinking", None, Some("hm")),
                       ContentItem("text", Some("hello"), None)>>,
                     <<ContentItem("text", Some("hi"), None),
                       ContentItem("tool_use", None, None)>>},
        output \in {0, 5}}
    \cup {badFrame, errorFrame("overloaded_error"), errorFrame("")}

CompletionResponses ==
    {[emptyClaudeResponse EXCEPT
         !.Type = "completion", !.Model = "claude-2", !.Completion = completion,
         !.StopReason = "stop_sequence"] :
        completion \in {"", " Hi"}}
    \cup {badFrame, errorFrame("overloaded_error")}

Body(readFails, encoding, intact, response) ==
    [readFails |-> readFails, ContentEncoding |-> encoding, intact |-> intact,
     response |-> response]

noBody == Body(FALSE, "", TRUE, emptyClaudeResponse)

noResult == [err |-> None, usage |-> None]

\* The response path at rest.
ResponseIdle ==
    /\ info = RelayInfo("openai", FALSE, 0, "message")
    /\ frames = <<>>
    /\ cursor = 0
    /\ body = noBody
    /\ sent = <<>>
    /\ claudeInfo = newClaudeResponseInfo("")
    /\ pc = "idle"
    /\ result = noResult

(***************************************************************************)
(* TosLogger (middleware/tos-logger.go).  A call of the request handler on *)
(* c.Writer is a record: the method, the status of WriteHeader, the bytes  *)
(* of Write and WriteString.  The real writer is what the caller receives: *)
(* the status and the bytes, in order.                                     *)
(***************************************************************************)
\* A variant of the writer that captures the bytes and forwards none.
writeCaptureOnly(real, capture, call) ==
    IF capture # None /\ call.method \in {"Write", "WriteString"}
    THEN [writer |-> real,
          bodyWriter |-> Some([body |-> capture[1].body \o call.data,
                               writeCount |-> capture[1].writeCount + 1])]
    ELSE [writer |-> IF call.method = "WriteHeader"
                     THEN [real EXCEPT !.status = IF real.body = "" THEN call.status ELSE @]
                     ELSE [real EXCEPT !.body = @ \o call.data],
          bodyWriter |-> capture]

\* Lines 44-65: one call of the handler on c.Writer.  Write and WriteString
\* of responseBodyWriter count the call, copy the bytes to the buffer and
\* hand them to the embedded writer; every other method is the embedded
\* writer's.  The status is taken until the first byte is written.
write(real, capture, call) ==
    LET forwarded ==
            IF call.method = "WriteHeader"
            THEN [real EXCEPT !.status = IF real.body = "" THEN call.status ELSE @]
            ELSE [real EXCEPT !.body = @ \o call.data]
    IN  IF capture # None /\ call.method \in {"Write", "WriteString"}
        THEN [writer |-> forwarded,
              bodyWriter |-> Some([body |-> capture[1].body \o call.data,
                                   writeCount |-> capture[1].writeCount + 1])]
        ELSE [writer |-> forwarded, bodyWriter |-> capture]

\* Lines 68-82, for the lower-case header values of the requests below.
isStreamingContentType(contentType) ==
    \E st \in {"text/event-stream", "application/octet-stream", "application/x-ndjson",
                "application/stream+json"} :
        \E i \in 1..Len(contentType) :
            /\ i + Len(st) - 1 <= Len(contentType)
            /\ SubSeq(contentType, i, i + Len(st) - 1) = st

\* The middleware at rest.
LoggerIdle ==
    /\ tos = [client |-> FALSE, path |-> "", contentType |-> "", requestId |-> ""]
    /\ script = <<>>
    /\ wrote = 0
    /\ writer = [status |-> 200, body |-> ""]
    /\ bodyWriter = None
    /\ mw = "idle"
    /\ task = [state |-> "none", content |-> None]
    /\ logs = <<>>

(***************************************************************************)
(* Initial states and actions.                                             *)
(***************************************************************************)
InitClaude(req) ==
    /\ request = req
    /\ inbound = req
    /\ before = req
    /\ calls = 0
    /\ textRequest = noTextRequest
    /\ settings = defaultSettings
    /\ outcome = "none"
    /\ formatMessages = <<>>
    /\ ResponseIdle
    /\ LoggerIdle

InitInject == \E s \in Systems : InitClaude(SystemRequest(s))

InitCache == \E ks \in BlockProfiles : \E ms \in MessageLists(ks) : InitClaude(MessageRequest(ms))

Init ==
    \/ InitInject
    \/ InitCache
    \/ \E req \in MixedRequests : InitClaude(req)

InitOpenAI ==
    /\ textRequest \in TextRequests
    /\ settings \in SettingsValues
    /\ request = emptyClaudeRequest
    /\ inbound = emptyClaudeRequest
    /\ before = emptyClaudeRequest
    /\ calls = 0
    /\ outcome = "none"
    /\ formatMessages = <<>>
    /\ ResponseIdle
    /\ LoggerIdle

\* Adaptor.ConvertClaudeRequest, called once per request.
DoConvertClaudeRequest ==
    /\ calls = 0
    /\ \E id \in GeneratedIds : request' = ConvertClaudeRequest(request, id)
    /\ before' = request
    /\ calls' = calls + 1
    /\ outcome' = "ok"
    /\ UNCHANGED <<inbound, textRequest, settings, formatMessages>>
    /\ UNCHANGED <<responseVars, loggerVars>>

\* Adaptor.processClaudeCodeSystemPrompt applied to the request.
DoProcessClaudeCodeSystemPrompt ==
    /\ calls < MaxCalls
    /\ request' = [request EXCEPT !.System = processClaudeCodeSystemPrompt(@)]
    /\ before' = request
    /\ calls' = calls + 1
    /\ outcome' = "ok"
    /\ UNCHANGED <<inbound, textRequest, settings, formatMessages>>
    /\ UNCHANGED <<responseVars, loggerVars>>

\* Adaptor.addCacheControl applied to the request's messages.
DoAddCacheControl ==
    /\ calls < MaxCalls
    /\ request' = [request EXCEPT !.Messages = addCacheControl(@)]
    /\ before' = request
    /\ calls' = calls + 1
    /\ outcome' = "ok"
    /\ UNCHANGED <<inbound, textRequest, settings, formatMessages>>
    /\ UNCHANGED <<responseVars, loggerVars>>

\* Adaptor.ConvertOpenAIRequest in message mode, called once per request.
DoConvertOpenAIRequest ==
    /\ calls = 0
    /\ LET res == RequestOpenAI2ClaudeMessage(textRequest, settings)
       IN  /\ request' = res.request
           /\ outcome' = res.outcome
           /\ formatMessages' = res.formatMessages
    /\ before' = request
    /\ calls' = calls + 1
    /\ UNCHANGED <<inbound, textRequest, settings>>
    /\ UNCHANGED <<responseVars, loggerVars>>

Next == DoConvertClaudeRequest

Spec == Init /\ [][Next]_vars

NextInject == DoProcessClaudeCodeSystemPrompt

SpecInject == InitInject /\ [][NextInject]_vars

NextCache == DoAddCacheControl

SpecCache == InitCache /\ [][NextCache]_vars

NextOpenAI == DoConvertOpenAIRequest

SpecOpenAI == InitOpenAI /\ [][NextOpenAI]_vars

(***************************************************************************)
(* The message conversion on its own.                                      *)
(***************************************************************************)
InitMessages ==
    /\ \E messages \in SeqsUpTo(OpenAIMessages, MaxInMessages) :
           textRequest =
               [Model |-> <<"claude-sonnet-4">>, MaxTokens |-> 1000,
                Temperature |-> Some("0.7"), TopP |-> "0.9", TopK |-> 40,
                ReasoningEffort |-> "", Reasoning |-> None,
                Stop |-> Value("nil", "", <<>>), Messages |-> messages]
    /\ settings = defaultSettings
    /\ request = emptyClaudeRequest
    /\ inbound = emptyClaudeRequest
    /\ before = emptyClaudeRequest
    /\ calls = 0
    /\ outcome = "none"
    /\ formatMessages = <<>>
    /\ ResponseIdle
    /\ LoggerIdle

SpecMessages == InitMessages /\ [][NextOpenAI]_vars

(***************************************************************************)
(* ClaudeStreamHandler: the frames of the upstream stream are handled one  *)
(* at a time, cursor counting those handled; then the stream is finalized. *)
(***************************************************************************)
ConversionIdle ==
    /\ request = emptyClaudeRequest
    /\ inbound = emptyClaudeRequest
    /\ before = emptyClaudeRequest
    /\ calls = 0
    /\ textRequest = noTextRequest
    /\ settings = defaultSettings
    /\ outcome = "none"
    /\ formatMessages = <<>>

InitStream(relayInfo, frameList) ==
    /\ ConversionIdle
    /\ LoggerIdle
    /\ info = relayInfo
    /\ frames = frameList
    /\ cursor = 0
    /\ body = noBody
    /\ sent = <<>>
    /\ claudeInfo = newClaudeResponseInfo(relayInfo.UpstreamModelName)
    /\ pc = "scanning"
    /\ result = noResult

\* A stream is any short sequence of message-mode frames; or a turn, which is
\* message_start, some events, and an end (cut off, or message_delta and
\* message_stop); or a completion-mode stream.
InitStreamHandler ==
    \E format \in RelayFormats, includeUsage \in BOOLEAN :
        \/ \E frameList \in SeqsUpTo(Frames, MaxFrames) :
              InitStream(RelayInfo(format, includeUsage, 7, "message"), frameList)
        \/ \E events \in SeqsUpTo({textDelta("a"), textDelta("b"), thinkingDelta("t"),
                                    blockStart(0, textBlock), badFrame}, MaxDeltas),
              end \in {<<>>,
                       <<messageDelta(stopDelta(Some("end_turn")), 0, 5)>>,
                       <<messageDelta(stopDelta(Some("end_turn")), 0, 5),
                         Frame("message_stop")>>,
                       <<messageDelta(stopDelta(Some("end_turn")), 0, 0),
                         Frame("message_stop")>>} :
              InitStream(RelayInfo(format, includeUsage, 7, "message"),
                         <<messageStart(10, 1)>> \o events \o end)
        \/ \E frameList \in SeqsUpTo({completionFrame(" Hi", ""),
                                       completionFrame("!", "stop_sequence"),
                                       badFrame}, MaxFrames) :
              InitStream(RelayInfo(format, includeUsage, 7, "completion"), frameList)

\* The callback of helper.StreamScannerHandler on the next frame.  An error
\* stops the scan and ClaudeStreamHandler returns it.
DoHandleStreamResponseData ==
    /\ pc = "scanning"
    /\ cursor < Len(frames)
    /\ \E nilWritten \in BOOLEAN :
          LET claudeResponse == frames[cursor + 1]
              handled == HandleStreamResponseData(info, claudeInfo, claudeResponse, nilWritten)
          IN  /\ nilWritten =>
                    /\ frameError(claudeResponse) = None
                    /\ info.RelayFormat = "openai"
                    /\ info.RequestMode = "message"
                    /\ yieldsNil(claudeResponse)
                    /\ formatAccepts(info.RequestMode, claudeResponse)
              /\ cursor' = cursor + 1
              /\ claudeInfo' = handled.claudeInfo
              /\ info' = handled.info
              /\ sent' = sent \o handled.out
              /\ pc' = IF handled.panics THEN "panicked"
                       ELSE IF handled.err # None THEN "aborted" ELSE "scanning"
              /\ result' = [err |-> handled.err, usage |-> None]
    /\ UNCHANGED <<frames, body>>
    /\ UNCHANGED <<conversionVars, loggerVars>>

\* The scan is over without an error: HandleStreamFinalResponse, then the
\* usage is returned.
DoHandleStreamFinalResponse ==
    /\ pc = "scanning"
    /\ cursor = Len(frames)
    /\ LET final == HandleStreamFinalResponse(info, claudeInfo)
       IN  /\ claudeInfo' = final.claudeInfo
           /\ sent' = sent \o final.out
           /\ result' = [err |-> None, usage |-> Some(final.claudeInfo.Usage)]
    /\ pc' = "done"
    /\ UNCHANGED <<info, frames, cursor, body>>
    /\ UNCHANGED <<conversionVars, loggerVars>>

NextStream == DoHandleStreamResponseData \/ DoHandleStreamFinalResponse

SpecStream == InitStreamHandler /\ [][NextStream]_vars

(***************************************************************************)
(* ClaudeHandler: a complete response.                                     *)
(***************************************************************************)
\* A body arrives unreadable, plain, compressed, or compressed and damaged.
InitResponse ==
    /\ ConversionIdle
    /\ LoggerIdle
    /\ \E format \in RelayFormats :
       \E arrival \in {<<TRUE, "", TRUE>>, <<FALSE, "", TRUE>>, <<FALSE, "gzip", TRUE>>,
                       <<FALSE, "gzip", FALSE>>, <<FALSE, "deflate", TRUE>>,
                       <<FALSE, "deflate", FALSE>>, <<FALSE, "br", TRUE>>} :
          \/ \E response \in MessageResponses :
                /\ info = RelayInfo(format, FALSE, 7, "message")
                /\ body = Body(arrival[1], arrival[2], arrival[3], response)
          \/ \E response \in CompletionResponses :
                /\ info = RelayInfo(format, FALSE, 7, "completion")
                /\ body = Body(arrival[1], arrival[2], arrival[3], response)
    /\ frames = <<>>
    /\ cursor = 0
    /\ sent = <<>>
    /\ claudeInfo = newClaudeResponseInfo(info.UpstreamModelName)
    /\ pc = "responding"
    /\ result = noResult

DoClaudeHandler ==
    /\ pc = "responding"
    /\ LET handled == ClaudeHandler(info, body)
       IN  /\ sent' = sent \o handled.out
           /\ result' = [err |-> handled.err, usage |-> handled.usage]
           /\ claudeInfo' = IF handled.usage # None
                            THEN [claudeInfo EXCEPT !.Usage = handled.usage[1]]
                            ELSE claudeInfo
           /\ pc' = IF handled.err # None THEN "aborted" ELSE "done"
    /\ UNCHANGED <<info, frames, cursor, body>>
    /\ UNCHANGED <<conversionVars, loggerVars>>

NextResponse == DoClaudeHandler

SpecResponse == InitResponse /\ [][NextResponse]_vars

(***************************************************************************)
(* TosLogger: one request through the middleware.  The request handler     *)
(* (c.Next) makes its calls on c.Writer one at a time; the upload task     *)
(* handed to gopool.Go runs on a pool worker, beside the request path.     *)
(***************************************************************************)
InitTosLogger ==
    /\ ConversionIdle
    /\ ResponseIdle
    /\ tos \in [client : BOOLEAN,
                path : {"/v1/chat/completions", "/api/status"},
                contentType : {"application/json", "text/event-stream; charset=utf-8"},
                requestId : {"20251110093000abcdefgh"}]
    /\ script \in SeqsUpTo({[method |-> "WriteHeader", status |-> 500, data |-> ""],
                            [method |-> "Write", status |-> 0, data |-> "a"],
                            [method |-> "WriteString", status |-> 0, data |-> "b"]},
                           MaxWrites)
    /\ wrote = 0
    /\ writer = [status |-> 200, body |-> ""]
    /\ bodyWriter = None
    /\ mw = "start"
    /\ task = [state |-> "none", content |-> None]
    /\ logs = <<>>

\* Lines 122-135: the writer is wrapped when there is a client and the path
\* is one of the logged ones.
DoTosLoggerEnter ==
    /\ mw = "start"
    /\ LET logged ==
               /\ tos.client
               /\ \E p \in {"/v1/chat/completions", "/pg/chat/completions",
                             "/v1/responses", "/v1/messages", "/v1beta/models"} :
                      /\ Len(p) <= Len(tos.path)
                      /\ SubSeq(tos.path, 1, Len(p)) = p
       IN  bodyWriter' = IF logged THEN Some([body |-> "", writeCount |-> 0]) ELSE None
    /\ mw' = "handling"
    /\ UNCHANGED <<tos, script, wrote, writer, task, logs>>
    /\ UNCHANGED <<conversionVars, responseVars>>

\* Lines 138 and 200: the next call of the request handler on c.Writer.
DoHandlerWrite ==
    /\ mw = "handling"
    /\ wrote < Len(script)
    /\ LET written == write(writer, bodyWriter, script[wrote + 1])
       IN  /\ writer' = written.writer
           /\ bodyWriter' = written.bodyWriter
    /\ wrote' = wrote + 1
    /\ UNCHANGED <<tos, script, mw, task, logs>>
    /\ UNCHANGED <<conversionVars, responseVars>>

\* Lines 140-197: the handler is back; the log record is built from the
\* captured bytes and the upload is handed to the pool.
DoTosLoggerSubmit ==
    /\ mw = "handling"
    /\ wrote = Len(script)
    /\ bodyWriter # None
    /\ LET isStreaming == \/ bodyWriter[1].writeCount > 1
                          \/ isStreamingContentType(tos.contentType)
           content ==
               [path |-> "newapi_logs/" \o SubSeq(tos.requestId, 1, 8) \o "/"
                         \o tos.requestId \o ".json",
                is_streaming |-> isStreaming,
                normalized |-> ~isStreaming,
                response |-> bodyWriter[1].body]
       IN  task' = [state |-> "queued", content |-> Some(content)]
    /\ mw' = "submitted"
    /\ UNCHANGED <<tos, script, wrote, writer, bodyWriter, logs>>
    /\ UNCHANGED <<conversionVars, responseVars>>

\* Lines 197-203: the middleware returns, with the upload handed over or
\* with nothing to log.
DoTosLoggerReturn ==
    /\ \/ mw = "submitted"
       \/ mw = "handling" /\ wrote = Len(script) /\ bodyWriter = None
    /\ mw' = "returned"
    /\ UNCHANGED <<tos, script, wrote, writer, bodyWriter, task, logs>>
    /\ UNCHANGED <<conversionVars, responseVars>>

\* Lines 177-197: the upload task on its worker.  The record may fail to
\* marshal ("{}" is stored instead); the put succeeds or fails; after a
\* failure the output is read all the same, and when it is nil the task
\* panics in the worker.  The task logs through the request's context, which
\* after the request has returned may be another request's (own tells).
DoUpload ==
    /\ task.state = "queued"
    /\ \E marshals \in BOOLEAN, ok \in BOOLEAN, outputNil \in BOOLEAN, own \in BOOLEAN :
          /\ ok => ~outputNil
          /\ mw # "returned" => own
          /\ logs' = logs
                \o (IF marshals THEN <<>>
                    ELSE <<[kind |-> "error", msg |-> "Failed to marshal content",
                            own |-> own]>>)
                \o (IF ok
                    THEN <<[kind |-> "object", key |-> task.content[1].path,
                            data |-> IF marshals THEN task.content ELSE None]>>
                    ELSE <<[kind |-> "error", msg |-> "Failed to put object",
                            own |-> own]>>)
                \o (IF outputNil THEN <<>>
                    ELSE <<[kind |-> "info", msg |-> "TOS PutObjectV2", own |-> own]>>)
          /\ task' = [task EXCEPT !.state = IF ok THEN "done"
                                           ELSE IF outputNil THEN "panicked" ELSE "failed"]
    /\ UNCHANGED <<tos, script, wrote, writer, bodyWriter, mw>>
    /\ UNCHANGED <<conversionVars, responseVars>>

NextTosLogger ==
    \/ DoTosLoggerEnter
    \/ DoHandlerWrite
    \/ DoTosLoggerSubmit
    \/ DoTosLoggerReturn
    \/ DoUpload

SpecTosLogger == InitTosLogger /\ [][NextTosLogger]_vars

(***************************************************************************)
(* Properties of the system-prompt injection (SpecInject).                 *)
(***************************************************************************)
\* The system field is a non-empty list whose first element is a block with
\* the preamble as its text.
FirstTextIsPreamble(System) ==
    /\ IsList(System)
    /\ Len(System.items) >= 1
    /\ System.items[1].kind \in {"map", "media"}
    /\ System.items[1].text = Some(defaultSystemMessage)

\* What a caller can read of a system element: its text and its marker.
ElementContent(e) ==
    [text |-> e.text,
     cc |-> IF e.cc = None THEN None ELSE Some([type |-> e.cc[1].type, ttl |-> e.cc[1].ttl])]

\* C1 as stated: for every accepted shape of the system field, after
\* injection the field is a list whose first element's text is the preamble,
\* and a second injection changes nothing.
C1_SystemIsListWithPreambleFirst ==
    /\ (calls >= 1 /\ inbound.System.shape # "other") => FirstTextIsPreamble(request.System)
    /\ calls >= 2 => request.System = before.System

\* C1 amended: after injection the system field is a list whose first
\* element's text is the preamble, or it is the caller's string when that
\* string is the preamble itself (the string is left as it is); a second
\* injection changes nothing.
C1_PreambleFirstOrPreambleString ==
    /\ calls >= 1 =>
          \/ FirstTextIsPreamble(request.System)
          \/ /\ inbound.System = Value("string", defaultSystemMessage, <<>>)
             /\ request.System = inbound.System
    /\ calls >= 2 => request.System = before.System

\* A media list that does not start with the preamble has been injected twice.
C1_Witness ==
    /\ calls = 2
    /\ inbound.System.shape = "media"
    /\ Len(inbound.System.items) = 2
    /\ inbound.System.items[1].text = Some("Be terse.")
    /\ request.System.shape = "maps"
    /\ Len(request.System.items) = 3

\* The caller's system elements, in order, whatever the shape.
CallerElements(System) ==
    IF System.shape = "string"
    THEN <<ElementContent(Block("raw", "", Some(System.str), None))>>
    ELSE [i \in 1..Len(System.items) |-> ElementContent(System.items[i])]

\* The system field is present, non-empty, and does not start with the preamble.
CallerSystemToKeep(System) ==
    \/ System.shape = "string" /\ System.str # "" /\ System.str # defaultSystemMessage
    \/ /\ IsList(System)
       /\ Len(System.items) >= 1
       /\ System.items[1].text # Some(defaultSystemMessage)

\* C2: when the system field is present, non-empty and does not start with
\* the preamble, the result is the preamble element followed by every
\* original element, in order, with its text and marker.
C2_CallerSystemPreserved ==
    (calls = 1 /\ CallerSystemToKeep(inbound.System)) =>
        /\ FirstTextIsPreamble(request.System)
        /\ Len(request.System.items) = 1 + Len(CallerElements(inbound.System))
        /\ \A i \in 1..Len(CallerElements(inbound.System)) :
              ElementContent(request.System.items[i + 1]) = CallerElements(inbound.System)[i]

(***************************************************************************)
(* Properties of the cache-control passes.                                 *)
(***************************************************************************)
IsListContent(message) == message.Content.shape \in {"media", "untyped"}

HasMarker(block) == block.cc # None

MarkerContent(block) == [type |-> block.cc[1].type, ttl |-> block.cc[1].ttl]

CanonicalMarker == [type |-> "ephemeral", ttl |-> Some("1h")]

TtlLess(block) == HasMarker(block) /\ block.cc[1].type = "ephemeral" /\ block.cc[1].ttl = None

\* The blocks of a message content, none for a bare string.
BlocksOf(message) == IF IsListContent(message) THEN message.Content.items ELSE <<>>

\* C3: after ConvertClaudeRequest no block of the system list or of a
\* message carries an ephemeral marker without ttl; in the messages every
\* such marker has become the canonical one and a marker with a ttl is as
\* it was.
C3_NoMarkerWithoutTtl ==
    calls = 1 =>
        /\ IsList(request.System) =>
              \A i \in 1..Len(request.System.items) : ~TtlLess(request.System.items[i])
        /\ \A i \in 1..Len(request.Messages) :
              \A j \in 1..Len(BlocksOf(request.Messages[i])) :
                 /\ ~TtlLess(BlocksOf(request.Messages[i])[j])
                 /\ (IsListContent(inbound.Messages[i]) /\ HasMarker(BlocksOf(inbound.Messages[i])[j])) =>
                       /\ HasMarker(BlocksOf(request.Messages[i])[j])
                       /\ MarkerContent(BlocksOf(request.Messages[i])[j]) =
                             IF TtlLess(BlocksOf(inbound.Messages[i])[j])
                             THEN CanonicalMarker
                             ELSE MarkerContent(BlocksOf(inbound.Messages[i])[j])

\* The blocks that can take a marker: a typed block, or a map of an untyped list.
CanCarryMarker(block) == block.kind \in {"media", "map"}

MarkedBlocks(messages) ==
    {p \in UNION {{<<i, j>> : j \in 1..Len(BlocksOf(messages[i]))} : i \in 1..Len(messages)} :
        HasMarker(BlocksOf(messages[p[1]])[p[2]])}

IsLastBlockOfLastUser(messages, p) ==
    /\ p[1] = LastUserIndex(messages)
    /\ p[2] = Len(BlocksOf(messages[p[1]]))

\* C5 as stated: in an outbound request at most one block of all messages
\* carries a marker, and it is the last block of the last user message.
C5_AtMostOneMarker ==
    calls = 1 =>
        /\ Cardinality(MarkedBlocks(request.Messages)) <= 1
        /\ \A p \in MarkedBlocks(request.Messages) : IsLastBlockOfLastUser(request.Messages, p)

\* C5 amended: in an outbound request every block that carries a marker is
\* the last block of the last user message or carried a marker inbound, and
\* every block that carried a marker inbound still carries one: the
\* conversion adds at most one marker and removes none.
C5_OnlyLastUserBlockGainsMarker ==
    calls = 1 =>
        /\ \A p \in MarkedBlocks(request.Messages) :
              \/ IsLastBlockOfLastUser(request.Messages, p)
              \/ p \in MarkedBlocks(inbound.Messages)
        /\ MarkedBlocks(inbound.Messages) \subseteq MarkedBlocks(request.Messages)
        /\ Cardinality(MarkedBlocks(request.Messages) \ MarkedBlocks(inbound.Messages)) <= 1

\* The caller marked a block of an earlier message; the outbound request
\* carries that marker and the one placed on the last user message.
C5_Witness ==
    /\ calls = 1
    /\ Len(inbound.Messages) = 2
    /\ MarkedBlocks(inbound.Messages) = {<<1, 1>>}
    /\ inbound.Messages[2].Role = "user"
    /\ MarkedBlocks(request.Messages) = {<<1, 1>>, <<2, 1>>}

(***************************************************************************)
(* Properties of the message-mode conversion (SpecOpenAI).                 *)
(***************************************************************************)
\* The configured default of the request's model, 4096 read as 16384.
BumpedDefault == IF settings.DefaultMaxTokens = 4096 THEN 16384 ELSE settings.DefaultMaxTokens

\* The "-thinking" suffix rule applies to the request.
SuffixRuleApplies == settings.ThinkingAdapterEnabled /\ HasThinkingSuffix(textRequest.Model)

\* C6 as stated: without a caller max_tokens the converted max_tokens is the
\* model's default, 16384 when that default is 4096, for every model name.
C6_DefaultMaxTokens ==
    (outcome = "ok" /\ textRequest.MaxTokens = 0) => request.MaxTokens = BumpedDefault

\* C6 amended: without a caller max_tokens the converted max_tokens is the
\* model's default, 16384 when that default is 4096; when the "-thinking"
\* suffix rule applies, a value below 1280 is raised to 1280.
C6_DefaultMaxTokensRaisedForThinking ==
    (outcome = "ok" /\ textRequest.MaxTokens = 0) =>
        request.MaxTokens =
            IF SuffixRuleApplies /\ BumpedDefault < 1280 THEN 1280 ELSE BumpedDefault

\* No caller max_tokens, a default of 4096, a "-thinking" model: 16384.
C6_Witness ==
    /\ outcome = "ok"
    /\ textRequest.MaxTokens = 0
    /\ settings.DefaultMaxTokens = 4096
    /\ SuffixRuleApplies
    /\ request.MaxTokens = 16384

\* max_tokens once the caller's value, the default and the 4096 rule are applied.
ResolvedMaxTokens ==
    LET m == IF textRequest.MaxTokens # 0 THEN textRequest.MaxTokens
             ELSE settings.DefaultMaxTokens
    IN  IF m = 4096 THEN 16384 ELSE m

Max(a, b) == IF a >= b THEN a ELSE b

Floor80Percent(n) == (4 * n) \div 5

\* C7: under the suffix rule at 80%, with no reasoning_effort and no
\* reasoning object, max_tokens = max(resolved, 1280) and the thinking
\* directive is enabled with budget floor(0.8 * max_tokens), which is at
\* least 1024 and below max_tokens; a caller max_tokens of 1000 gives 1280
\* and 1024.
C7_ThinkingSuffixBudget ==
    (/\ outcome = "ok"
     /\ SuffixRuleApplies
     /\ settings.Percentage = 80
     /\ textRequest.ReasoningEffort = ""
     /\ textRequest.Reasoning = None) =>
        /\ request.MaxTokens = Max(ResolvedMaxTokens, 1280)
        /\ request.Thinking # None
        /\ request.Thinking[1].Type = "enabled"
        /\ request.Thinking[1].BudgetTokens = Floor80Percent(request.MaxTokens)
        /\ request.Thinking[1].BudgetTokens >= 1024
        /\ request.Thinking[1].BudgetTokens < request.MaxTokens
        /\ textRequest.MaxTokens = 1000 =>
              (request.MaxTokens = 1280 /\ request.Thinking[1].BudgetTokens = 1024)

\* The example of the claim: caller max_tokens 1000.
C7_Witness ==
    /\ outcome = "ok"
    /\ SuffixRuleApplies
    /\ settings.Percentage = 80
    /\ textRequest.ReasoningEffort = ""
    /\ textRequest.Reasoning = None
    /\ textRequest.MaxTokens = 1000
    /\ request.MaxTokens = 1280
    /\ request.Thinking = Some([Type |-> "enabled", BudgetTokens |-> 1024])

\* C8: when the suffix rule enabled thinking, the returned request has
\* temperature 1.0 and top_p cleared.
C8_ThinkingSamplingPinned ==
    (outcome = "ok" /\ SuffixRuleApplies) =>
        /\ request.Temperature = Some("1.0")
        /\ request.TopP = "0"

\* The reasoning object is present and carries a positive budget.
HasReasoningBudget == textRequest.Reasoning # None /\ textRequest.Reasoning[1].MaxTokens > 0

EffortBudget ==
    CASE textRequest.ReasoningEffort = "low" -> 1280
      [] textRequest.ReasoningEffort = "medium" -> 2048
      [] textRequest.ReasoningEffort = "high" -> 4096
      [] OTHER -> 0

\* C9: the thinking directive comes from the highest-precedence source
\* present: a reasoning object with a positive budget, else reasoning_effort
\* low/medium/high (1280/2048/4096), else the suffix rule, else none.
C9_ThinkingPrecedence ==
    outcome = "ok" =>
        request.Thinking =
            IF HasReasoningBudget
            THEN Some([Type |-> "enabled", BudgetTokens |-> textRequest.Reasoning[1].MaxTokens])
            ELSE IF EffortBudget # 0
                 THEN Some([Type |-> "enabled", BudgetTokens |-> EffortBudget])
                 ELSE IF SuffixRuleApplies
                      THEN Some([Type |-> "enabled",
                                 BudgetTokens |-> (Max(ResolvedMaxTokens, 1280) * settings.Percentage) \div 100])
                      ELSE None

\* All three sources are present and the reasoning object wins.
C9_Witness ==
    /\ outcome = "ok"
    /\ SuffixRuleApplies
    /\ textRequest.ReasoningEffort = "high"
    /\ HasReasoningBudget
    /\ request.Thinking = Some([Type |-> "enabled", BudgetTokens |-> 3000])

AllStrings(items) == \A i \in 1..Len(items) : items[i].isString

\* C10: a string stop becomes a one-element list, a list of strings is
\* copied in order, and a list with a non-string element makes the call
\* return an error and no request.
C10_StopSequences ==
    calls = 1 =>
        /\ (outcome = "ok" /\ textRequest.Stop.shape = "string") =>
              request.StopSequences = Some(<<textRequest.Stop.str>>)
        /\ (outcome = "ok" /\ textRequest.Stop.shape = "list") =>
              /\ request.StopSequences # None
              /\ Len(request.StopSequences[1]) = Len(textRequest.Stop.items)
              /\ \A i \in 1..Len(textRequest.Stop.items) :
                    request.StopSequences[1][i] = textRequest.Stop.items[i].value
        /\ (textRequest.Stop.shape = "list" /\ ~AllStrings(textRequest.Stop.items)) =>
              outcome = "error"

(***************************************************************************)
(* Properties of the message conversion (SpecMessages).                    *)
(***************************************************************************)
Converted == calls = 1 /\ outcome = "ok"

\* Every inbound message is a user or an assistant message: each flattened
\* message then yields one outbound message, after the placeholder if any.
OnlyTurns ==
    \A i \in 1..Len(textRequest.Messages) :
        textRequest.Messages[i].Role \in {"user", "assistant"}

IsQuote(s, i) == SubSeq(s, i, i) = "\""

\* r is s without some leading and trailing quote characters, and has none
\* left at either end.
IsQuoteTrimmed(r, s) ==
    /\ \E lo \in 0..Len(s), hi \in 0..Len(s) :
          /\ lo + hi <= Len(s)
          /\ r = SubSeq(s, lo + 1, Len(s) - hi)
          /\ \A i \in 1..lo : IsQuote(s, i)
          /\ \A i \in (Len(s) - hi + 1)..Len(s) : IsQuote(s, i)
    /\ Len(r) > 0 => ~IsQuote(r, 1) /\ ~IsQuote(r, Len(r))

SameTurnRole(a, b) == a.Role = b.Role /\ a.Role # "tool"

FirstNonSystemRole ==
    LET others == {i \in 1..Len(textRequest.Messages) :
                      textRequest.Messages[i].Role # "system"}
        first == CHOOSE i \in others : \A j \in others : i <= j
    IN  textRequest.Messages[first].Role

HasNonSystem == \E i \in 1..Len(textRequest.Messages) : textRequest.Messages[i].Role # "system"

StartsWithPlaceholder(messages) ==
    /\ Len(messages) > 0
    /\ messages[1].Role = "user"
    /\ messages[1].Content.shape = "media"
    /\ Len(messages[1].Content.items) > 0
    /\ messages[1].Content.items[1].type = "text"
    /\ messages[1].Content.items[1].text = Some("...")

\* The text of the text blocks of a list of media messages.
RECURSIVE MediaText(_)
MediaText(items) ==
    IF items = <<>>
    THEN ""
    ELSE (IF Head(items).type = "text" /\ Head(items).text # None
          THEN Head(items).text[1] ELSE "")
         \o MediaText(Tail(items))

\* What an outbound message carries, in order: its own role and text, then
\* one unit per tool result appended to it.
UnitsOfOutbound(message) ==
    IF message.Content.shape = "string"
    THEN << <<message.Role, message.Content.str>> >>
    ELSE IF message.Content.shape = "untyped"
         THEN << <<message.Role, TextOfParts(message.Content.items)>> >>
         ELSE LET own == SelectSeq(message.Content.items,
                                   LAMBDA b : b.type # "tool_result")
                  results == SelectSeq(message.Content.items,
                                       LAMBDA b : b.type = "tool_result")
              IN  (IF own = <<>> /\ results # <<>>
                   THEN <<>>
                   ELSE << <<message.Role, MediaText(own)>> >>)
                  \o [i \in 1..Len(results) |-> <<"tool", results[i].ToolUseId>>]

RECURSIVE OutboundUnits(_)
OutboundUnits(messages) ==
    IF messages = <<>>
    THEN <<>>
    ELSE UnitsOfOutbound(Head(messages)) \o OutboundUnits(Tail(messages))

\* What the flattened non-system messages carry, in order.
FlattenedUnits ==
    LET others == SelectSeq(formatMessages, LAMBDA m : m.Role # "system")
    IN  [i \in 1..Len(others) |->
            IF others[i].Role = "tool"
            THEN <<"tool", others[i].ToolCallId>>
            ELSE <<others[i].Role, StringContent(others[i])>>]

\* C12: when there is a non-system message the outbound list starts with a
\* user message; when the first non-system message is not a user message the
\* outbound list starts with the placeholder "..."; and the outbound list
\* carries, in order, the placeholder if any and then what the messages
\* carried.
C12_UserFirst ==
    (Converted /\ HasNonSystem) =>
        /\ Len(request.Messages) > 0
        /\ request.Messages[1].Role = "user"
        /\ FirstNonSystemRole # "user" => StartsWithPlaceholder(request.Messages)
        /\ OutboundUnits(request.Messages) =
              (IF FirstNonSystemRole # "user" THEN << <<"user", "...">> >> ELSE <<>>)
              \o FlattenedUnits

\* C12 witness: a tool message came first, then an assistant message, and
\* the placeholder is in front with the tool result in it.
C12_Witness ==
    /\ Converted
    /\ Len(textRequest.Messages) = 2
    /\ textRequest.Messages[1].Role = "tool"
    /\ textRequest.Messages[2].Role = "assistant"
    /\ Len(request.Messages) = 2
    /\ StartsWithPlaceholder(request.Messages)
    /\ Len(request.Messages[1].Content.items) = 2
    /\ request.Messages[2].Role = "assistant"

\* The tool_use blocks a message with tool calls is to yield: one per call
\* whose arguments are a JSON object, in call order.
ExpectedToolUses(message) ==
    LET objects == SelectSeq(message.ToolCalls[1],
                             LAMBDA toolCall : toolCall.Arguments.json = "object")
    IN  [i \in 1..Len(objects) |->
            [Id |-> objects[i].ID, Name |-> objects[i].Name,
             Input |-> objects[i].Arguments.text]]

ToolUsesOf(message) ==
    IF message.Content.shape # "media"
    THEN <<>>
    ELSE LET uses == SelectSeq(message.Content.items, LAMBDA b : b.type = "tool_use")
         IN  [i \in 1..Len(uses) |->
                 [Id |-> uses[i].Id, Name |-> uses[i].Name, Input |-> uses[i].Input]]

\* C13: for every inbound assistant message with tool calls there is an
\* outbound assistant message whose tool_use blocks are the calls with
\* object arguments, in call order.
C13_ToolCallsTranslated ==
    Converted =>
        \A i \in 1..Len(textRequest.Messages) :
            (/\ textRequest.Messages[i].Role = "assistant"
             /\ textRequest.Messages[i].ToolCalls # None) =>
                \E j \in 1..Len(request.Messages) :
                    /\ request.Messages[j].Role = "assistant"
                    /\ ToolUsesOf(request.Messages[j]) =
                          ExpectedToolUses(textRequest.Messages[i])

(***************************************************************************)
(* Metadata of the outbound request (Spec, SpecOpenAI).                    *)
(***************************************************************************)
\* C14: a converted request carries metadata with a user_id.
C14_MetadataCarriesUserId ==
    Converted =>
        /\ request.Metadata # None
        /\ "user_id" \in DOMAIN request.Metadata[1]

(***************************************************************************)
(* Properties of the stream handler (SpecStream).                          *)
(***************************************************************************)
\* The chunks written so far, in order.
ChunksSent == SelectSeq(sent, LAMBDA o : o.kind = "chunk")

\* The delta and finish reason of the i-th chunk.
ChunkChoice(i) == ChunksSent[i].data.Choices[1]

\* The stream of C15, to Dialect-O output in message mode.
IsStartABDeltaStop ==
    /\ info.RelayFormat = "openai"
    /\ info.RequestMode = "message"
    /\ Len(frames) = 5
    /\ frames[1].Type = "message_start"
    /\ frames[2] = textDelta("a")
    /\ frames[3] = textDelta("b")
    /\ frames[4].Type = "message_delta"
    /\ frames[4].Delta = stopDelta(Some("end_turn"))
    /\ frames[5].Type = "message_stop"

\* C15: on [message_start, delta "a", delta "b", message_delta(end_turn),
\* message_stop] each of the first four frames yields one chunk and
\* message_stop none; the chunks are an empty assistant-role delta, "a", "b"
\* and one with finish reason "stop"; the stream is neither aborted nor
\* panics, and at finalization the completion flag is true.
C15_StartABDeltaStop ==
    IsStartABDeltaStop =>
        /\ pc \in {"scanning", "done"}
        /\ Len(ChunksSent) = (IF cursor <= 4 THEN cursor ELSE 4)
        /\ \A i \in 1..Len(sent) : sent[i].kind \in {"chunk", "usage", "done"}
        /\ cursor >= 1 =>
              /\ ChunkChoice(1).Role = "assistant"
              /\ ChunkChoice(1).Content = Some("")
              /\ ChunkChoice(1).FinishReason = None
        /\ cursor >= 2 =>
              /\ ChunkChoice(2).Content = Some("a")
              /\ ChunkChoice(2).FinishReason = None
        /\ cursor >= 3 =>
              /\ ChunkChoice(3).Content = Some("b")
              /\ ChunkChoice(3).FinishReason = None
        /\ cursor >= 4 => ChunkChoice(4).FinishReason = Some("stop")
        /\ pc = "done" => claudeInfo.Done

\* C15 witness: the stream has been reduced and finalized.
C15_Witness ==
    /\ IsStartABDeltaStop
    /\ pc = "done"
    /\ cursor = 5
    /\ Len(ChunksSent) = 4
    /\ claudeInfo.Done

\* A frame that does not decode, or that decodes to an error envelope (an
\* error object with a type).
IsBadFrame(frame) ==
    \/ ~frame.decodes
    \/ frame.Error # None /\ frame.Error[1] # ""

NoFinalOutput == \A i \in 1..Len(sent) : sent[i].kind \notin {"usage", "done"}

IsBlockStartWithoutBlock(frame) ==
    /\ ~IsBadFrame(frame)
    /\ frame.Type = "content_block_start"
    /\ frame.ContentBlock = None

\* C17: a content_block_start event without its block aborts the stream with
\* an error, and nothing is written for it.
C17_AbsentBlockAborts ==
    [][(/\ pc = "scanning"
        /\ cursor < Len(frames)
        /\ info.RelayFormat = "openai"
        /\ info.RequestMode = "message"
        /\ IsBlockStartWithoutBlock(frames[cursor + 1])) =>
            /\ pc' = "aborted"
            /\ result'.err # None
            /\ sent' = sent]_vars

CountOutputs(kind) == Cardinality({i \in 1..Len(sent) : sent[i].kind = kind})

\* C18: once the stream is finalized to Dialect-O output, the last output is
\* the one terminator; the usage trailer is there once when usage was asked
\* for and not at all otherwise, right before the terminator and carrying
\* the returned usage; everything before is per-event output.
C18_Finalization ==
    (pc = "done" /\ info.RelayFormat = "openai") =>
        LET n == Len(sent)
            tail == IF info.ShouldIncludeUsage THEN 2 ELSE 1
        IN  /\ n >= tail
            /\ sent[n].kind = "done"
            /\ CountOutputs("done") = 1
            /\ CountOutputs("usage") = (IF info.ShouldIncludeUsage THEN 1 ELSE 0)
            /\ info.ShouldIncludeUsage =>
                  /\ sent[n - 1].kind = "usage"
                  /\ result.usage = Some(sent[n - 1].Usage)
            /\ \A i \in 1..(n - tail) : sent[i].kind \in {"chunk", "null"}

\* C18 witness: a stream with chunks was finalized with the usage trailer.
C18_Witness ==
    /\ pc = "done"
    /\ info.RelayFormat = "openai"
    /\ info.ShouldIncludeUsage
    /\ Len(ChunksSent) >= 2
    /\ sent[Len(sent)].kind = "done"

\* C19: at finalization in message mode the completion flag tells whether a
\* message_delta event was handled; the usage returned is recomputed from
\* the accumulated text, with the prompt tokens known so far, when the
\* completion tokens are zero or the flag is false, and is the accumulated
\* usage otherwise.
C19_UsageReconciliation ==
    [][(pc = "scanning" /\ pc' = "done" /\ info.RequestMode = "message") =>
          /\ claudeInfo.Done = (\E i \in 1..cursor : frames[i].Type = "message_delta")
          /\ result'.usage =
                Some(IF claudeInfo.Usage.CompletionTokens = 0 \/ ~claudeInfo.Done
                     THEN [emptyUsage EXCEPT
                              !.PromptTokens = claudeInfo.Usage.PromptTokens,
                              !.CompletionTokens = CountTextToken(claudeInfo.ResponseText),
                              !.TotalTokens = claudeInfo.Usage.PromptTokens
                                              + CountTextToken(claudeInfo.ResponseText)]
                     ELSE claudeInfo.Usage)]_vars

\* C19 witness: a stream cut off before message_delta, with upstream
\* completion tokens, was finalized on the recomputed usage.
C19_Witness ==
    /\ pc = "done"
    /\ info.RequestMode = "message"
    /\ ~claudeInfo.Done
    /\ Len(frames) > 0
    /\ frames[1] = messageStart(10, 1)
    /\ claudeInfo.ResponseText = "ab"
    /\ result.usage = Some([emptyUsage EXCEPT !.PromptTokens = 10,
                                             !.CompletionTokens = 2,
                                             !.TotalTokens = 12])

\* The events the usage of a stream is built from.
OnlyUsageEvents ==
    \A i \in 1..Len(frames) :
        /\ ~IsBadFrame(frames[i])
        /\ frames[i].Type \in {"message_start", "content_block_start",
                                "content_block_delta", "message_delta"}

\* C21: a message-mode stream of message_start, content_block_* and
\* message_delta events that is finalized with the completion flag set and
\* completion tokens reported returns a usage whose total is its prompt
\* tokens plus its completion tokens.
C21_StreamUsageTotal ==
    [][(/\ pc = "scanning"
        /\ pc' = "done"
        /\ info.RequestMode = "message"
        /\ OnlyUsageEvents
        /\ claudeInfo.Done
        /\ claudeInfo.Usage.CompletionTokens # 0) =>
            /\ result'.usage # None
            /\ result'.usage[1].TotalTokens =
                  result'.usage[1].PromptTokens + result'.usage[1].CompletionTokens]_vars

\* A decoded content_block_start event that carries its block, handled for a
\* caller of the Dialect-O format in message mode.
HandlesBlockStart ==
    /\ pc = "scanning"
    /\ cursor < Len(frames)
    /\ info.RelayFormat = "openai"
    /\ info.RequestMode = "message"
    /\ ~IsBadFrame(frames[cursor + 1])
    /\ frames[cursor + 1].Type = "content_block_start"
    /\ frames[cursor + 1].ContentBlock # None

\* C24: the start of a block that is not a tool invocation writes nothing;
\* the start of a tool_use block writes one chunk whose only tool call has
\* the block's id and name, empty arguments and the index max(index - 1, 0).
C24_BlockStartChunks ==
    [][HandlesBlockStart =>
          LET frame == frames[cursor + 1]
              block == frame.ContentBlock[1]
              index == IF frame.Index = None THEN 0 ELSE frame.Index[1]
          IN  IF block.Type # "tool_use"
              THEN sent' = sent
              ELSE /\ Len(sent') = Len(sent) + 1
                   /\ SubSeq(sent', 1, Len(sent)) = sent
                   /\ sent'[Len(sent')].kind = "chunk"
                   /\ Len(sent'[Len(sent')].data.Choices) = 1
                   /\ sent'[Len(sent')].data.Choices[1].ToolCalls =
                         <<[Index |-> IF index - 1 > 0 THEN index - 1 ELSE 0,
                            ID |-> block.Id, Type |-> "function", Name |-> block.Name,
                            Arguments |-> ""]>>]_vars

\* The payload of a content_block_delta event: its text, its thinking text
\* and its fragment of tool-argument JSON.
DeltaPayload(frame) ==
    IF frame.Type = "content_block_delta" /\ frame.Delta # None
    THEN (IF frame.Delta[1].Text # None THEN frame.Delta[1].Text[1] ELSE "")
         \o (IF frame.Delta[1].Thinking # None THEN frame.Delta[1].Thinking[1] ELSE "")
         \o (IF frame.Delta[1].PartialJson # None THEN frame.Delta[1].PartialJson[1] ELSE "")
    ELSE ""

RECURSIVE DeltaPayloads(_)
DeltaPayloads(frameList) ==
    IF frameList = <<>>
    THEN ""
    ELSE DeltaPayload(Head(frameList)) \o DeltaPayloads(Tail(frameList))

\* C25: when a message-mode stream is finalized, the full-text buffer is the
\* payloads of all its content_block_delta events, of every kind, in order.
C25_FullTextAccumulation ==
    (pc = "done" /\ info.RequestMode = "message") =>
        claudeInfo.ResponseText = DeltaPayloads(frames)

(***************************************************************************)
(* Properties of the non-stream handler (SpecResponse).                    *)
(***************************************************************************)
\* The text of the text items of a complete response.
RECURSIVE VisibleText(_)
VisibleText(content) ==
    IF content = <<>>
    THEN ""
    ELSE (IF Head(content).Type = "text" /\ Head(content).Text # None
          THEN Head(content).Text[1] ELSE "")
         \o VisibleText(Tail(content))

\* C20: a message-mode response that reports zero completion tokens is
\* answered with completion tokens counted from its visible text, and with
\* total = prompt + completion.
C20_ZeroCompletionRecomputed ==
    (/\ pc = "done"
     /\ info.RequestMode = "message"
     /\ body.response.Usage.OutputTokens = 0) =>
        /\ result.usage # None
        /\ result.usage[1].CompletionTokens =
              CountTextToken(VisibleText(body.response.Content))
        /\ result.usage[1].TotalTokens =
              result.usage[1].PromptTokens + result.usage[1].CompletionTokens

\* A body that arrives readable and, when compressed, intact.
BodyArrives ==
    /\ ~body.readFails
    /\ ~(body.ContentEncoding \in {"gzip", "deflate"} /\ ~body.intact)

\* A decoded provider error envelope: an error object with a type.
IsErrorEnvelope(response) ==
    /\ response.decodes
    /\ response.Error # None
    /\ response.Error[1] # ""

\* C22: when the body decodes to a provider error envelope, the handler
\* returns the provider's error and no usage, has computed no usage and has
\* written nothing to the caller.
C22_ProviderErrorIsHard ==
    (pc # "responding" /\ BodyArrives /\ IsErrorEnvelope(body.response)) =>
        /\ pc = "aborted"
        /\ result.err = Some("claude_error")
        /\ result.usage = None
        /\ claudeInfo.Usage = emptyUsage
        /\ sent = <<>>

\* C22 witness: an error envelope was answered with the provider's error,
\* for a caller of the Dialect-O format.
C22_Witness ==
    /\ pc = "aborted"
    /\ info.RelayFormat = "openai"
    /\ BodyArrives
    /\ IsErrorEnvelope(body.response)
    /\ result.err = Some("claude_error")

\* C26: the Dialect-O response written for a complete body has exactly one
\* choice, with index 0 and the assistant role, in both request modes.
C26_ExactlyOneChoice ==
    (pc = "done" /\ info.RelayFormat = "openai") =>
        /\ Len(sent) = 1
        /\ sent[1].kind = "response"
        /\ Len(sent[1].data.Choices) = 1
        /\ sent[1].data.Choices[1].Index = 0
        /\ sent[1].data.Choices[1].Role = "assistant"

(***************************************************************************)
(* Properties of the log shipping (SpecTosLogger).                         *)
(***************************************************************************)
\* What the caller receives from the first n calls of the handler when the
\* writer is not wrapped: the status set before the first byte, and the
\* bytes in order.
RECURSIVE Unlogged(_)
Unlogged(n) ==
    IF n = 0
    THEN [status |-> 200, body |-> ""]
    ELSE LET sofar == Unlogged(n - 1)
         IN  IF script[n].method = "WriteHeader"
             THEN [sofar EXCEPT !.status = IF sofar.body = "" THEN script[n].status ELSE @]
             ELSE [sofar EXCEPT !.body = @ \o script[n].data]

\* C23: at every moment the caller has received what it would have without
\* logging, and the capture buffer holds the same bytes; the upload task
\* exists only once the handler has made all its calls; whatever the upload
\* does and whenever it does it, the returned request has delivered the
\* unlogged status and bytes; and once the upload is handed over the
\* middleware can return, whatever the state of the task.
C23_FireAndForget ==
    /\ writer = Unlogged(wrote)
    /\ bodyWriter # None => bodyWriter[1].body = writer.body
    /\ task.state # "none" => (wrote = Len(script) /\ mw \in {"submitted", "returned"})
    /\ mw = "returned" => writer = Unlogged(Len(script))
    /\ mw = "submitted" => ENABLED DoTosLoggerReturn

\* C23 witness: a handler that wrote twice has returned to its caller, and
\* the upload, run after the return, failed and panicked in its worker.
C23_Witness ==
    /\ mw = "returned"
    /\ task.state = "panicked"
    /\ bodyWriter # None
    /\ bodyWriter[1].writeCount = 2
    /\ writer.body = "ab"
    /\ \E i \in 1..Len(logs) : logs[i].kind = "error" /\ ~logs[i].own

====
